---- MODULE Spec2Model ----
(***************************************************************************)
(* A model of the log-to-Markdown converter (src/src/converter.py).        *)
(*                                                                         *)
(* Text is modelled character by character: a Python str is a sequence of  *)
(* one-character strings, so that strip, replace, join, substring tests,   *)
(* format and base64 decoding are computed the way the code computes them. *)
(***************************************************************************)
EXTENDS Integers, Sequences, FiniteSets, TLC

(***************************************************************************)
(* Python str and list primitives used by the converter.                   *)
(***************************************************************************)

\* "".join(list_of_str)
RECURSIVE Flatten(_)
Flatten(ss) ==
    IF ss = <<>> THEN <<>> ELSE Head(ss) \o Flatten(Tail(ss))

\* sep.join(list_of_str)
RECURSIVE join(_, _)
join(sep, ss) ==
    IF ss = <<>> THEN <<>>
    ELSE IF Len(ss) = 1 THEN ss[1]
    ELSE ss[1] \o sep \o join(sep, Tail(ss))

\* filter(None, list_of_str): the non-empty strings, in order
filter_None(ss) == SelectSeq(ss, LAMBDA s : s # <<>>)

IsSpace(c) == c \in {" ", "\n", "\t"}

RECURSIVE lstrip(_)
lstrip(s) == IF s # <<>> /\ IsSpace(Head(s)) THEN lstrip(Tail(s)) ELSE s

RECURSIVE rstrip(_)
rstrip(s) ==
    IF s # <<>> /\ IsSpace(s[Len(s)]) THEN rstrip(SubSeq(s, 1, Len(s) - 1)) ELSE s

\* str.strip()
strip(s) == rstrip(lstrip(s))

\* s.replace(old, new) for a one-character old
replace(s, old, new) ==
    Flatten([i \in 1..Len(s) |-> IF s[i] = old THEN new ELSE <<s[i]>>])

\* needle in hay (str containment)
Contains(needle, hay) ==
    \E k \in 0..(Len(hay) - Len(needle)) :
        SubSeq(hay, k + 1, k + Len(needle)) = needle

\* s.startswith(p), s.endswith(p)
startswith(s, p) == Len(p) <= Len(s) /\ SubSeq(s, 1, Len(p)) = p
endswith(s, p) ==
    Len(p) <= Len(s) /\ SubSeq(s, Len(s) - Len(p) + 1, Len(s)) = p

\* the character U+0060, which a TLA+ string cannot hold
BackTick == "&#96;"

DigitChars == <<"0", "1", "2", "3", "4", "5", "6", "7", "8", "9">>
IsDigit(c) == \E i \in 1..10 : DigitChars[i] = c

\* str(n) for a natural number n
RECURSIVE str_int(_)
str_int(n) ==
    IF n < 10 THEN <<DigitChars[n + 1]>>
    ELSE str_int(n \div 10) \o <<DigitChars[(n % 10) + 1]>>

LowerAZ ==
    <<"a", "b", "c", "d", "e", "f", "g", "h", "i", "j", "k", "l", "m",
      "n", "o", "p", "q", "r", "s", "t", "u", "v", "w", "x", "y", "z">>
UpperAZ ==
    <<"A", "B", "C", "D", "E", "F", "G", "H", "I", "J", "K", "L", "M",
      "N", "O", "P", "Q", "R", "S", "T", "U", "V", "W", "X", "Y", "Z">>

upper(c) ==
    IF \E i \in 1..26 : LowerAZ[i] = c
    THEN UpperAZ[CHOOSE i \in 1..26 : LowerAZ[i] = c] ELSE c
lower(c) ==
    IF \E i \in 1..26 : UpperAZ[i] = c
    THEN LowerAZ[CHOOSE i \in 1..26 : UpperAZ[i] = c] ELSE c

\* str.capitalize(): first character upper-cased, the rest lower-cased
capitalize(s) ==
    [i \in 1..Len(s) |-> IF i = 1 THEN upper(s[i]) ELSE lower(s[i])]

\* str.lower()
lower_str(s) == [i \in 1..Len(s) |-> lower(s[i])]

(***************************************************************************)
(* str.format: a template is a sequence whose elements are literal         *)
(* characters or replacement fields such as "{title}".  A field that the   *)
(* call does not bind raises KeyError.                                     *)
(***************************************************************************)
Fields ==
    {"{title}", "{cdate}", "{mdate}", "{header}", "{text}", "{thought_text}",
     "{date}", "{basename}", "{gdrive_indicator}", "{unknown}"}

\* template.format(**binds): binds maps the bound fields to their strings
format(template, binds) ==
    IF \E i \in 1..Len(template) :
           template[i] \in Fields /\ template[i] \notin DOMAIN binds
    THEN [raised |-> TRUE, v |-> <<>>]
    ELSE [raised |-> FALSE,
          v |-> Flatten([i \in 1..Len(template) |->
                           IF template[i] \in Fields THEN binds[template[i]]
                           ELSE <<template[i]>>])]

(***************************************************************************)
(* base64.b64decode(s) as CPython computes it (binascii.a2b_base64, not    *)
(* strict): characters outside the alphabet are discarded, a pad sequence  *)
(* that completes a quad ends the parse, and a quad left open is an error. *)
(***************************************************************************)
B64Alphabet == UpperAZ \o LowerAZ \o DigitChars \o <<"+", "/">>
IsB64(c) == \E i \in 1..64 : B64Alphabet[i] = c
B64Value(c) == (CHOOSE i \in 1..64 : B64Alphabet[i] = c) - 1

\* characters of the model's alphabet that are not ASCII
NonAscii == {"é"}

RECURSIVE a2b_base64(_, _, _, _, _)
a2b_base64(s, quad_pos, leftchar, pads, out) ==
    IF s = <<>> THEN [ok |-> quad_pos = 0, bytes |-> out, quad_pos |-> quad_pos]
    ELSE LET c == Head(s) IN
        IF c = "=" THEN
            IF quad_pos >= 2 /\ quad_pos + pads + 1 >= 4
            THEN [ok |-> TRUE, bytes |-> out, quad_pos |-> 0]
            ELSE a2b_base64(Tail(s), quad_pos, leftchar,
                            IF quad_pos >= 2 THEN pads + 1 ELSE pads, out)
        ELSE IF ~IsB64(c) THEN a2b_base64(Tail(s), quad_pos, leftchar, pads, out)
        ELSE LET v == B64Value(c) IN
            CASE quad_pos = 0 -> a2b_base64(Tail(s), 1, v, 0, out)
              [] quad_pos = 1 ->
                    a2b_base64(Tail(s), 2, v % 16, 0,
                               Append(out, leftchar * 4 + (v \div 16)))
              [] quad_pos = 2 ->
                    a2b_base64(Tail(s), 3, v % 4, 0,
                               Append(out, leftchar * 16 + (v \div 4)))
              [] OTHER ->
                    a2b_base64(Tail(s), 0, 0, 0, Append(out, leftchar * 64 + v))

\* base64.b64decode(s): "ValueError" for a non-ASCII str (not a binascii.Error),
\* "binascii.Error" for an open quad, else the bytes
b64decode(s) ==
    IF \E i \in 1..Len(s) : s[i] \in NonAscii
    THEN [exc |-> "ValueError", bytes |-> <<>>]
    ELSE LET r == a2b_base64(s, 0, 0, 0, <<>>) IN
         IF r.ok THEN [exc |-> "", bytes |-> r.bytes]
         ELSE [exc |-> "binascii.Error", bytes |-> <<>>]

(***************************************************************************)
(* The string literals of converter.py, spelled out character by character.*)
(***************************************************************************)
L_user ==
    <<"u", "s", "e", "r">>
L_model ==
    <<"m", "o", "d", "e", "l">>
L_H2 ==
    <<"#", "#", " ">>
L_H1 ==
    <<"#", " ">>
L_NL ==
    <<"\n">>
L_NL2 ==
    <<"\n", "\n">>
L_QuoteCont ==
    <<"\n", ">", " ">>
L_TurnSep ==
    <<"\n", "\n", "*", "*", "*", "\n", "\n">>
L_TableRule ==
    <<"\n", "\n", "*", "*", "*">>
L_SysHeaderDefault ==
    <<"S", "y", "s", "t", "e", "m", " ", "I", "n", "s", "t", "r", "u", "c",
      "t", "i", "o", "n", " ", "⚙">>
L_NoteOpen ==
    <<">", " ", "[", "!", "n", "o", "t", "e", "]", "-", " ">>
L_LBracket ==
    <<"[">>
L_IdOpen ==
    <<" ", "(", "I", "D", ":", " ">>
L_DriveUrl ==
    <<")", "]", "(", "h", "t", "t", "p", "s", ":", "/", "/", "d", "r", "i",
      "v", "e", ".", "g", "o", "o", "g", "l", "e", ".", "c", "o", "m", "/",
      "f", "i", "l", "e", "/", "d", "/">>
L_RParen ==
    <<")">>
L_Image ==
    <<"I", "m", "a", "g", "e">>
L_Document ==
    <<"D", "o", "c", "u", "m", "e", "n", "t">>
L_Video ==
    <<"V", "i", "d", "e", "o">>
L_FromDrive ==
    <<" ", "f", "r", "o", "m", " ", "G", "o", "o", "g", "l", "e", " ", "D",
      "r", "i", "v", "e">>
L_YouTubeOpen ==
    <<"[", "Y", "o", "u", "T", "u", "b", "e", " ", "V", "i", "d", "e", "o",
      " ", "(", "I", "D", ":", " ">>
L_YouTubeUrl ==
    <<")", "]", "(", "h", "t", "t", "p", "s", ":", "/", "/", "w", "w", "w",
      ".", "y", "o", "u", "t", "u", "b", "e", ".", "c", "o", "m", "/", "w",
      "a", "t", "c", "h", "?", "v", "=">>
L_EmbedOpen ==
    <<"!", "[", "[">>
L_EmbedClose ==
    <<"]", "]">>
L_ErrOpen ==
    <<"[", "E", "r", "r", "o", "r", " ", "s", "a", "v", "i", "n", "g", " ",
      "i", "m", "a", "g", "e", ":", " ">>
L_RBracket ==
    <<"]">>
L_Img ==
    <<"_", "i", "m", "g", "_">>
L_Dot ==
    <<".">>
L_IncorrectPadding ==
    <<"I", "n", "c", "o", "r", "r", "e", "c", "t", " ", "p", "a", "d", "d",
      "i", "n", "g">>
L_InvalidB64Open ==
    <<"I", "n", "v", "a", "l", "i", "d", " ", "b", "a", "s", "e", "6", "4",
      "-", "e", "n", "c", "o", "d", "e", "d", " ", "s", "t", "r", "i", "n",
      "g", ":", " ", "n", "u", "m", "b", "e", "r", " ", "o", "f", " ", "d",
      "a", "t", "a", " ", "c", "h", "a", "r", "a", "c", "t", "e", "r", "s",
      " ", "(">>
L_InvalidB64Close ==
    <<")", " ", "c", "a", "n", "n", "o", "t", " ", "b", "e", " ", "1", " ",
      "m", "o", "r", "e", " ", "t", "h", "a", "n", " ", "a", " ", "m", "u",
      "l", "t", "i", "p", "l", "e", " ", "o", "f", " ", "4">>
L_PermissionDenied ==
    <<"[", "E", "r", "r", "n", "o", " ", "1", "3", "]", " ", "P", "e", "r",
      "m", "i", "s", "s", "i", "o", "n", " ", "d", "e", "n", "i", "e", "d",
      ":", " ", "'">>
L_Quote ==
    <<"'">>
ASSETS_DIR_NAME ==
    <<"a", "s", "s", "e", "t", "s">>
L_InfoOpen ==
    <<">", " ", "[", "!", "i", "n", "f", "o", "]", "-", " ">>
L_SourcesUsed ==
    <<"S", "o", "u", "r", "c", "e", "s", " ", "U", "s", "e", "d">>
L_Gt ==
    <<">">>
L_GtSp ==
    <<">", " ">>
L_QueriesHeaderDefault ==
    <<"*", "*", "S", "e", "a", "r", "c", "h", " ", "Q", "u", "e", "r", "i",
      "e", "s", ":", "*", "*">>
L_SourcesHeaderDefault ==
    <<"*", "*", "S", "o", "u", "r", "c", "e", "s", ":", "*", "*">>
L_QueryOpen ==
    <<">", " ", "-", " ", BackTick>>
L_Tick ==
    <<BackTick>>
L_NumSep ==
    <<".", " ", "[">>
L_LinkMid ==
    <<"]", "(">>
L_Source ==
    <<"S", "o", "u", "r", "c", "e">>
L_None ==
    <<"N", "o", "n", "e">>
L_Bar ==
    <<"|", " ">>
L_BarMid ==
    <<" ", "|", " ">>
L_BarEnd ==
    <<" ", "|">>
L_BarTick ==
    <<" ", "|", " ", BackTick>>
L_TickBar ==
    <<BackTick, " ", "|">>
L_TableAlign ==
    <<"\n", "|", " ", ":", "-", "-", "-", " ", "|", " ", ":", "-", "-",
      "-", " ", "|">>
L_Parameter ==
    <<"P", "a", "r", "a", "m", "e", "t", "e", "r">>
L_Value ==
    <<"V", "a", "l", "u", "e">>
L_ModelLabel ==
    <<"*", "*", "M", "o", "d", "e", "l", "*", "*">>
L_NA ==
    <<"N", "/", "A">>
L_TemperatureLabel ==
    <<"*", "*", "T", "e", "m", "p", "e", "r", "a", "t", "u", "r", "e", "*",
      "*">>
L_TopPLabel ==
    <<"*", "*", "T", "o", "p", "-", "P", "*", "*">>
L_TopKLabel ==
    <<"*", "*", "T", "o", "p", "-", "K", "*", "*">>
L_WebSearchLabel ==
    <<"*", "*", "W", "e", "b", " ", "S", "e", "a", "r", "c", "h", "*", "*">>
L_Enabled ==
    <<"E", "n", "a", "b", "l", "e", "d">>
L_Disabled ==
    <<"D", "i", "s", "a", "b", "l", "e", "d">>
L_Tags ==
    <<"t", "a", "g", "s", ":">>
L_TagsSp ==
    <<"t", "a", "g", "s", ":", " ">>
L_TagDefault ==
    <<"h", "a", "s", "-", "g", "d", "r", "i", "v", "e", "-", "a", "t", "t",
      "a", "c", "h", "m", "e", "n", "t">>
L_NoDate ==
    <<"X", "X", "X", "X", "-", "X", "X", "-", "X", "X">>
L_DotJson ==
    <<".", "j", "s", "o", "n">>
L_DotMd ==
    <<".", "m", "d">>
L_SpDashSp ==
    <<" ", "-", " ">>

(***************************************************************************)
(* JSON values.  An optional member is None when its key is absent and     *)
(* Some(value) when it is present.                                         *)
(***************************************************************************)
None == <<>>
Some(x) == <<x>>

\* a "text" member: absent, JSON null, or a string
NoText == [k |-> "absent", v |-> <<>>]
NullText == [k |-> "null", v |-> <<>>]
Text(s) == [k |-> "str", v |-> s]

\* an inlineData object; an empty string stands for a missing or empty member
InlineData(mime, data) == [mimeType |-> mime, data |-> data]
\* a driveImage / driveDocument / driveVideo object
Drive(id, title) == [id |-> id, title |-> title]
\* a youtubeVideo object
YouTube(id) == [id |-> id]
\* a grounding object; falsy is TRUE for {} (an empty dict is falsy in Python)
Grounding(queries, sources) ==
    [falsy |-> FALSE, webSearchQueries |-> queries, groundingSources |-> sources]
EmptyGrounding ==
    [falsy |-> TRUE, webSearchQueries |-> <<>>, groundingSources |-> <<>>]
\* one entry of groundingSources
Source(uri, title, num) == [uri |-> uri, title |-> title, referenceNumber |-> num]

\* an entry of a chunk's parts array with no member set
EmptyPart ==
    [text |-> NoText, inlineData |-> None, driveImage |-> None,
     driveDocument |-> None, driveVideo |-> None, youtubeVideo |-> None]

\* a chunk with no member set
EmptyChunk ==
    [role |-> None, isThought |-> FALSE, text |-> NoText, grounding |-> None,
     inlineData |-> None, driveImage |-> None, driveDocument |-> None,
     driveVideo |-> None, youtubeVideo |-> None, parts |-> <<>>]

\* a systemInstruction member: absent, {} or {"text": ...}
NoSys == [k |-> "absent", text |-> NoText]
EmptySys == [k |-> "empty", text |-> NoText]
Sys(t) == [k |-> "obj", text |-> t]

\* a parsed log document (a JSON object); chunks and pendingInputs are the
\* members of chunkedPrompt, an empty list standing for a missing member
EmptyDoc ==
    [systemInstruction |-> NoSys, chunks |-> <<>>, pendingInputs |-> <<>>,
     history |-> <<>>, runSettings |-> None]

SetMax(S) == CHOOSE x \in S : \A y \in S : y <= x
SetMin(S) == CHOOSE x \in S : \A y \in S : x <= y

\* s.split(sep)[-1]
last_segment(s, sep) ==
    LET at == {i \in 1..Len(s) : s[i] = sep} IN
    IF at = {} THEN s ELSE SubSeq(s, SetMax(at) + 1, Len(s))

\* pathlib: PurePath.stem of a file name
stem(name) ==
    LET at == {i \in 1..Len(name) : name[i] = "."} IN
    IF at = {} THEN name
    ELSE LET i == SetMax(at) IN
         IF 1 < i /\ i < Len(name) THEN SubSeq(name, 1, i - 1) ELSE name

(***************************************************************************)
(* _check_for_gdrive_links                                                 *)
(***************************************************************************)
ATTACHMENT_KEYS == <<"driveImage", "driveDocument", "driveVideo">>

\* any(key in obj for key in ATTACHMENT_KEYS)
has_attachment_key(obj) ==
    \E n \in 1..Len(ATTACHMENT_KEYS) : obj[ATTACHMENT_KEYS[n]] # None

_check_for_gdrive_links(log_data) ==
    LET chunks == IF log_data.chunks # <<>> THEN log_data.chunks
                  ELSE log_data.history
    IN \E i \in 1..Len(chunks) :
          \/ has_attachment_key(chunks[i])
          \/ \E p \in 1..Len(chunks[i].parts) :
                has_attachment_key(chunks[i].parts[p])

(***************************************************************************)
(* save_image_from_base64.  The world W of one conversion holds the asset  *)
(* files ([name, bytes] records, one per file name), whether the output    *)
(* directory and its assets directory exist, whether the output directory  *)
(* accepts writes, the wall clock in ms, the number k of calls made so far, *)
(* the exception raised, if any, and the names of the asset files written  *)
(* so far, in the order of the writes (saved).  The schedule sched gives, for the    *)
(* k-th call, how far the clock has moved since the previous one and       *)
(* whether writing the file fails.                                         *)
(***************************************************************************)
write_asset(assets, name, bytes) ==
    {a \in assets : a.name # name} \cup {[name |-> name, bytes |-> bytes]}

binascii_Error_message(nbytes) ==
    L_InvalidB64Open \o str_int((nbytes \div 3) * 4 + 1) \o L_InvalidB64Close

\* str(e) of the binascii.Error b64decode raises on s
decode_error_message(s) ==
    LET r == a2b_base64(s, 0, 0, 0, <<>>)
    IN IF r.quad_pos = 1 THEN binascii_Error_message(Len(r.bytes))
       ELSE L_IncorrectPadding

save_image_from_base64(base64_data, mime_type, md_name, W, sched) ==
    LET k == W.k + 1
        timestamp == W.now + sched[k].tick
        W1 == [W EXCEPT !.k = k, !.now = timestamp]
    IN IF ~W.assetsDir /\ ~W.outDir
       THEN [frag |-> <<>>, W |-> [W1 EXCEPT !.exc = "FileNotFoundError"]]
       ELSE IF ~W.assetsDir /\ ~W.writable
       THEN [frag |-> <<>>, W |-> [W1 EXCEPT !.exc = "PermissionError"]]
       ELSE
        LET W2 == [W1 EXCEPT !.assetsDir = TRUE]
            extension == last_segment(mime_type, "/")
            image_filename ==
                stem(md_name) \o L_Img \o str_int(timestamp) \o L_Dot \o extension
            d == b64decode(base64_data)
        IN CASE d.exc = "ValueError" ->
                   [frag |-> <<>>, W |-> [W2 EXCEPT !.exc = "ValueError"]]
             [] d.exc = "binascii.Error" ->
                   [frag |-> L_ErrOpen \o decode_error_message(base64_data)
                                \o L_RBracket,
                    W |-> W2]
             [] d.exc = "" /\ (sched[k].fail \/ ~W.writable) ->
                   [frag |-> L_ErrOpen \o L_PermissionDenied \o ASSETS_DIR_NAME
                                \o <<"/">> \o image_filename \o L_Quote
                                \o L_RBracket,
                    W |-> W2]
             [] OTHER ->
                   [frag |-> L_EmbedOpen \o image_filename \o L_EmbedClose,
                    W |-> [W2 EXCEPT
                             !.assets = write_asset(@, image_filename, d.bytes),
                             !.saved = Append(@, image_filename)]]

(***************************************************************************)
(* urllib.parse.unquote and urlparse(uri).hostname, for printable ASCII.   *)
(***************************************************************************)
HexDigits ==
    <<"0", "1", "2", "3", "4", "5", "6", "7", "8", "9", "A", "B", "C", "D", "E", "F">>
IsHex(c) == \E i \in 1..16 : HexDigits[i] = upper(c)
HexValue(c) == (CHOOSE i \in 1..16 : HexDigits[i] = upper(c)) - 1

\* the printable ASCII characters, chr(32) .. chr(126)
PrintableAscii ==
    <<" ", "!", "\"", "#", "$", "%", "&", "'", "(", ")", "*", "+", ",", "-",
      ".", "/">> \o DigitChars \o <<":", ";", "<", "=", ">", "?", "@">>
    \o UpperAZ \o <<"[", "\\", "]", "^", "_", BackTick>> \o LowerAZ
    \o <<"{", "|", "}", "~">>

\* unquote(s): %XX becomes chr(0xXX); other text is kept.  A code outside
\* printable ASCII becomes the replacement character.
RECURSIVE unquote(_)
unquote(s) ==
    IF s = <<>> THEN <<>>
    ELSE IF Head(s) = "%" /\ Len(s) >= 3 /\ IsHex(s[2]) /\ IsHex(s[3])
    THEN LET code == 16 * HexValue(s[2]) + HexValue(s[3]) IN
         (IF 32 <= code /\ code <= 126
          THEN <<PrintableAscii[code - 31]>> ELSE <<"�">>)
         \o unquote(SubSeq(s, 4, Len(s)))
    ELSE <<Head(s)>> \o unquote(Tail(s))

IsSchemeChar(c) ==
    \/ \E i \in 1..26 : LowerAZ[i] = lower(c)
    \/ IsDigit(c)
    \/ c \in {"+", "-", "."}

\* urlparse: uri without its scheme and the colon after it
url_after_scheme(uri) ==
    LET colons == {i \in 1..Len(uri) : uri[i] = ":"}
        c == IF colons = {} THEN 0 ELSE SetMin(colons)
    IN IF /\ c > 1
          /\ ~IsDigit(uri[1]) /\ uri[1] \notin {"+", "-", "."}
          /\ \A i \in 1..(c - 1) : IsSchemeChar(uri[i])
       THEN SubSeq(uri, c + 1, Len(uri)) ELSE uri

\* urlparse: the network location of rest, which starts with two slashes
url_netloc(rest) ==
    LET stops == {i \in 3..Len(rest) : rest[i] \in {"/", "?", "#"}}
    IN IF stops = {} THEN SubSeq(rest, 3, Len(rest))
       ELSE SubSeq(rest, 3, SetMin(stops) - 1)

\* the network location without its user information
url_hostport(netloc) ==
    LET ats == {i \in 1..Len(netloc) : netloc[i] = "@"}
    IN IF ats = {} THEN netloc
       ELSE SubSeq(netloc, SetMax(ats) + 1, Len(netloc))

\* host:port without its port
url_host(hostport) ==
    LET ports == {i \in 1..Len(hostport) : hostport[i] = ":"}
    IN IF ports = {} THEN hostport
       ELSE SubSeq(hostport, 1, SetMin(ports) - 1)

lowered_or_None(host) == IF host = <<>> THEN None ELSE Some(lower_str(host))

\* urlparse(uri).hostname: None, or Some(host)
hostname(uri) ==
    IF ~startswith(url_after_scheme(uri), <<"/", "/">>) THEN None
    ELSE lowered_or_None(
             url_host(url_hostport(url_netloc(url_after_scheme(uri)))))

(***************************************************************************)
(* format_grounding_data.  loc is lang_templates.get('grounding_metadata', *)
(* {}): a record of optional members.                                      *)
(***************************************************************************)
\* d.get(key, default) on a record of optional members
get(d, key, default) == IF d[key] # None THEN d[key][1] ELSE default

NoGroundingLabels ==
    [spoiler_header |-> None, queries_header |-> None, sources_header |-> None]

source_line(source) ==
    LET uri == source.uri
        host == IF uri # None THEN hostname(uri[1]) ELSE None
        \* title = source.get('title') or urlparse(uri).hostname if uri else "Source"
        title == IF uri # None /\ uri[1] # <<>>
                 THEN (IF source.title # None /\ source.title[1] # <<>>
                       THEN source.title[1]
                       ELSE IF host # None THEN host[1] ELSE L_None)
                 ELSE L_Source
        num == IF source.referenceNumber # None THEN source.referenceNumber[1]
               ELSE <<>>
    IN L_GtSp \o num \o L_NumSep \o title \o L_LinkMid
         \o (IF uri # None THEN uri[1] ELSE L_None) \o L_RParen

format_grounding_data(grounding_data, lang_templates) ==
    LET loc == get(lang_templates, "grounding_metadata", NoGroundingLabels)
        spoiler_header == get(loc, "spoiler_header", L_SourcesUsed)
        queries_header == get(loc, "queries_header", L_QueriesHeaderDefault)
        sources_header == get(loc, "sources_header", L_SourcesHeaderDefault)
        queries == grounding_data.webSearchQueries
        sources == grounding_data.groundingSources
        content ==
            << L_InfoOpen \o spoiler_header >>
            \o (IF queries # <<>>
                THEN << L_GtSp \o queries_header >>
                     \o [q \in 1..Len(queries) |->
                           L_QueryOpen \o queries[q] \o L_Tick]
                ELSE <<>>)
            \o (IF sources # <<>>
                THEN (IF queries # <<>> THEN << L_Gt >> ELSE <<>>)
                     \o << L_GtSp \o sources_header >>
                     \o [n \in 1..Len(sources) |-> source_line(sources[n])]
                ELSE <<>>)
    IN join(L_NL, content)

(***************************************************************************)
(* _build_conversation_turns.  ctx holds what one conversion is called     *)
(* with: md_name (the destination file name), config, lang_templates and   *)
(* the schedule sched of its save_image_from_base64 calls.                 *)
(***************************************************************************)
attachment_label(key) ==
    CASE key = "driveImage" -> L_Image
      [] key = "driveDocument" -> L_Document
      [] OTHER -> L_Video

\* lines 153-156 and 179-182: the link of one Drive attachment key, if any
drive_link(obj, key) ==
    LET a == obj[key] IN
    IF a # None /\ a[1].id # <<>>
    THEN << L_LBracket
            \o unquote(IF a[1].title # None THEN a[1].title[1]
                       ELSE attachment_label(key) \o L_FromDrive)
            \o L_IdOpen \o a[1].id \o L_DriveUrl \o a[1].id \o L_RParen >>
    ELSE <<>>

drive_links(obj) ==
    drive_link(obj, "driveImage") \o drive_link(obj, "driveDocument")
        \o drive_link(obj, "driveVideo")

\* lines 158-160
youtube_link(chunk) ==
    LET y == chunk.youtubeVideo IN
    IF y # None /\ y[1].id # <<>>
    THEN << L_YouTubeOpen \o y[1].id \o L_YouTubeUrl \o y[1].id \o L_RParen >>
    ELSE <<>>

\* the inlineData of a chunk or part is resolved: data and mimeType are truthy
has_inline(obj) ==
    /\ obj.inlineData # None
    /\ obj.inlineData[1].data # <<>>
    /\ obj.inlineData[1].mimeType # <<>>

\* extend_unless_present that extends in every case
extend_always(T, part_content) ==
    [T EXCEPT !.turn_content = @ \o part_content]

\* lines 185-186: part_content joins the turn unless its concatenation is a
\* substring of a fragment the turn already holds
extend_unless_present(T, part_content) ==
    IF \E n \in 1..Len(T.turn_content) :
          Contains(Flatten(part_content), T.turn_content[n])
    THEN T
    ELSE [T EXCEPT !.turn_content = @ \o part_content]

\* lines 172-175: the part's embedded image, saved: r is what
\* save_image_from_base64 returned
part_with_image(part, r) ==
    [part_content |-> IF r.W.exc # "" THEN <<>>
                      ELSE << r.frag >> \o drive_links(part),
     W |-> r.W]

\* lines 168-182: the part_content of one entry of a chunk's parts array,
\* and the world after it was built from the world W
part_content_of(part, W, ctx) ==
    IF part.text.k = "null"
    THEN [part_content |-> <<>>, W |-> [W EXCEPT !.exc = "AttributeError"]]
    ELSE IF part.text.k = "str"
    THEN [part_content |-> << strip(part.text.v) >> \o drive_links(part),
          W |-> W]
    ELSE IF has_inline(part)
    THEN part_with_image(part,
             save_image_from_base64(part.inlineData[1].data,
                                    part.inlineData[1].mimeType,
                                    ctx.md_name, W, ctx.sched))
    ELSE [part_content |-> drive_links(part), W |-> W]

\* lines 167-186: one entry of a chunk's parts array
process_part(T, part, ctx) ==
    IF T.W.exc # "" THEN T
    ELSE LET r == part_content_of(part, T.W, ctx) IN
         IF r.W.exc # "" THEN [T EXCEPT !.W = r.W]
         ELSE extend_unless_present([T EXCEPT !.W = r.W], r.part_content)

RECURSIVE process_parts(_, _, _)
process_parts(T, parts, ctx) ==
    IF parts = <<>> THEN T
    ELSE process_parts(process_part(T, Head(parts), ctx), Tail(parts), ctx)

\* lines 137-143: a thought chunk of a model turn
process_thought(T, chunk, ctx) ==
    LET thought_text ==
            strip(IF chunk.text.k = "str" THEN chunk.text.v ELSE <<>>)
        template == ctx.lang_templates.thought_block_template
        f == format(template[1],
                    "{thought_text}" :> replace(thought_text, "\n", L_QuoteCont))
    IN IF thought_text = <<>> THEN T
       ELSE IF template = None \/ f.raised THEN [T EXCEPT !.W.exc = "KeyError"]
       ELSE [T EXCEPT !.pending_thoughts = Append(@, f.v)]

\* lines 162-165: the chunk's embedded image, saved: r is what
\* save_image_from_base64 returned
chunk_with_image(T, r) ==
    IF r.W.exc # "" THEN [T EXCEPT !.W = r.W]
    ELSE [T EXCEPT !.W = r.W, !.turn_content = Append(@, r.frag)]

\* lines 162-186: the chunk's embedded image, then its parts
process_attachments(T, chunk, ctx) ==
    process_parts(
        IF has_inline(chunk)
        THEN chunk_with_image(T,
                 save_image_from_base64(chunk.inlineData[1].data,
                                        chunk.inlineData[1].mimeType,
                                        ctx.md_name, T.W, ctx.sched))
        ELSE T,
        chunk.parts, ctx)

\* lines 137-186: one chunk of the run
process_chunk(T, chunk, current_role, ctx) ==
    IF T.W.exc # "" THEN T
    ELSE IF current_role = L_model /\ chunk.isThought
    THEN process_thought(T, chunk, ctx)
    ELSE IF chunk.text.k = "null" THEN [T EXCEPT !.W.exc = "AttributeError"]
    ELSE process_attachments(
             [T EXCEPT
                !.grounding_data =
                    IF chunk.grounding # None THEN chunk.grounding ELSE @,
                !.turn_content =
                    @ \o (IF chunk.text.k = "str"
                          THEN << strip(chunk.text.v) >> ELSE <<>>)
                      \o drive_links(chunk) \o youtube_link(chunk)],
             chunk, ctx)

RECURSIVE process_chunks(_, _, _, _)
process_chunks(T, turn_chunks, current_role, ctx) ==
    IF turn_chunks = <<>> THEN T
    ELSE process_chunks(process_chunk(T, Head(turn_chunks), current_role, ctx),
                        Tail(turn_chunks), current_role, ctx)

\* line 106: the conversation source
conversation_source(log_data) ==
    IF log_data.chunks # <<>> THEN log_data.chunks
    ELSE IF log_data.pendingInputs # <<>> THEN log_data.pendingInputs
    ELSE log_data.history

\* line 104
system_instruction_of(log_data) ==
    LET s == log_data.systemInstruction IN
    IF s.k = "obj" /\ s.text.k = "str" THEN strip(s.text.v) ELSE <<>>

\* chunks[i].get('role') is truthy
has_role(chunk) == chunk.role # None /\ chunk.role[1] # <<>>

\* lines 120-123: the index after the run of current_role that starts at j
RECURSIVE run_end(_, _, _)
run_end(chunks, j, current_role) ==
    IF j <= Len(chunks) /\ chunks[j].role = Some(current_role)
    THEN run_end(chunks, j + 1, current_role) ELSE j

\* line 128
role_header(lang_templates, current_role) ==
    LET key == IF current_role = L_user THEN "user_header"
               ELSE IF current_role = L_model THEN "model_header" ELSE ""
    IN IF key # "" /\ lang_templates[key] # None THEN lang_templates[key][1]
       ELSE L_H2 \o capitalize(current_role)

SysTemplateDefault ==
    L_NoteOpen \o <<"{header}">> \o L_QuoteCont \o <<"{text}">>

\* lines 131-134
spoiler_block(system_instruction, lang_templates) ==
    format(get(lang_templates, "system_instruction_template", SysTemplateDefault),
           "{header}" :> get(lang_templates, "system_instruction_header",
                             L_SysHeaderDefault)
           @@ "{text}" :> replace(system_instruction, "\n", L_QuoteCont))

\* line 130: the system instruction goes into the turn that starts at index i
takes_system_instruction(i, current_role, system_instruction) ==
    i = 1 /\ current_role = L_user /\ system_instruction # <<>>

\* finish_turn with the pending thought blocks put after the ordinary content
finish_turn_thoughts_last(T, current_role, ctx) ==
    IF current_role = L_model THEN T.turn_content \o T.pending_thoughts
    ELSE T.turn_content

\* lines 188-192: the fragments of a finished turn
finish_turn(T, current_role, ctx) ==
    LET with_thoughts ==
            IF current_role = L_model THEN T.pending_thoughts \o T.turn_content
            ELSE T.turn_content
        g == T.grounding_data
    IN IF /\ current_role = L_model
          /\ g # None /\ ~g[1].falsy
          /\ ctx.config.enable_grounding_metadata
       THEN Append(with_thoughts,
                   format_grounding_data(g[1], ctx.lang_templates))
       ELSE with_thoughts

\* lines 194-195
render_turn(header, turn_content) ==
    header \o L_NL2 \o join(L_NL2, filter_None(turn_content))

\* lines 126-135: the turn before its first chunk; T holds turn_content,
\* pending_thoughts, grounding_data and the world W
start_turn(B, current_role, system_instruction, ctx) ==
    LET with_sys ==
            takes_system_instruction(B.i, current_role, system_instruction)
        spoiler == spoiler_block(system_instruction, ctx.lang_templates)
    IN [turn_content |->
            IF with_sys /\ ~spoiler.raised THEN << spoiler.v >> ELSE <<>>,
        pending_thoughts |-> <<>>,
        grounding_data |-> None,
        W |-> IF with_sys /\ spoiler.raised
              THEN [B.W EXCEPT !.exc = "KeyError"] ELSE B.W]

\* lines 194-197: the turn is rendered unless it is empty, and i becomes j
append_turn(B, j, current_role, header, pending_thoughts, turn_content, W1) ==
    [i |-> j,
     conversation_turns |->
         IF turn_content # <<>>
         THEN Append(B.conversation_turns, render_turn(header, turn_content))
         ELSE B.conversation_turns,
     emitted |->
         IF turn_content # <<>>
         THEN Append(B.emitted,
                     [role |-> current_role, first |-> B.i, last |-> j - 1,
                      turn_content |-> turn_content,
                      pending_thoughts |-> pending_thoughts])
         ELSE B.emitted,
     W |-> W1]

\* lines 188-197, given the turn T its chunks have left
close_turn(B, j, current_role, T, ctx) ==
    IF T.W.exc # "" THEN [B EXCEPT !.W = T.W]
    ELSE append_turn(B, j, current_role,
                     role_header(ctx.lang_templates, current_role),
                     T.pending_thoughts, finish_turn(T, current_role, ctx), T.W)

\* lines 125-197: the run of current_role from index B.i to j - 1
scan_run(B, j, current_role, chunks, system_instruction, ctx) ==
    close_turn(B, j, current_role,
               process_chunks(
                   start_turn(B, current_role, system_instruction, ctx),
                   SubSeq(chunks, B.i, j - 1), current_role, ctx),
               ctx)

\* lines 113-197: one iteration of the scan.  B holds i (from 1), the
\* conversation_turns rendered so far, for each of them the run it came from
\* and its fragment list (emitted), and the world W.
turn_step(B, chunks, system_instruction, ctx) ==
    IF ~has_role(chunks[B.i]) THEN [B EXCEPT !.i = @ + 1]
    ELSE scan_run(B, run_end(chunks, B.i, chunks[B.i].role[1]),
                  chunks[B.i].role[1], chunks, system_instruction, ctx)

RECURSIVE build_loop(_, _, _, _)
build_loop(B, chunks, system_instruction, ctx) ==
    IF B.W.exc # "" \/ B.i > Len(chunks) THEN B
    ELSE build_loop(turn_step(B, chunks, system_instruction, ctx),
                    chunks, system_instruction, ctx)

\* the scan's state before its first iteration
BuildStart(W) ==
    [i |-> 1, conversation_turns |-> <<>>, emitted |-> <<>>, W |-> W]

\* line 199
join_turns(conversation_turns) == join(L_TurnSep, conversation_turns)

\* the function's result once the scan has ended in B
built(B) == [md |-> join_turns(B.conversation_turns), W |-> B.W]

\* the whole function: the Markdown of the conversation and the world after
_build_conversation_turns(log_data, W, ctx) ==
    IF system_instruction_of(log_data) = <<>>
       /\ conversation_source(log_data) = <<>>
    THEN [md |-> <<>>, W |-> W]
    ELSE built(build_loop(BuildStart(W), conversation_source(log_data),
                          system_instruction_of(log_data), ctx))

(***************************************************************************)
(* get_clean_title: re.match of a date prefix, four, two and two digits    *)
(* joined by hyphens, then space-hyphen-space, then the captured rest.     *)
(***************************************************************************)
\* \d of a str pattern: any Unicode decimal digit, of which the model's
\* alphabet holds the ASCII ones and ARABIC-INDIC DIGIT THREE (U+0663,
\* which a TLA+ string cannot hold)
ArabicThree == "&#1635;"
UnicodeDigits == {ArabicThree}
is_decimal(c) == IsDigit(c) \/ c \in UnicodeDigits

\* the pattern's fixed-width prefix matches at the start of s
date_prefix_matches(s) ==
    /\ Len(s) >= 13
    /\ \A i \in {1, 2, 3, 4, 6, 7, 9, 10} : is_decimal(s[i])
    /\ s[5] = "-" /\ s[8] = "-"
    /\ s[11] = " " /\ s[12] = "-" /\ s[13] = " "

\* group(1): the dot does not match a newline, so the group ends before it
first_line(s) ==
    LET nl == {i \in 1..Len(s) : s[i] = "\n"} IN
    IF nl = {} THEN s ELSE SubSeq(s, 1, SetMin(nl) - 1)

\* a get_clean_title that never removes anything
title_unchanged(base_title) == base_title

get_clean_title(base_title) ==
    IF date_prefix_matches(base_title)
    THEN first_line(SubSeq(base_title, 14, Len(base_title)))
    ELSE base_title

(***************************************************************************)
(* Source files and their modification time.  mtime counts days from       *)
(* 2025-08-10; a file whose stat raises FileNotFoundError (it was removed  *)
(* after being read) has mtime None.                                       *)
(***************************************************************************)
L_YearMonth == <<"2", "0", "2", "5", "-", "0", "8", "-">>
L_Midnight == <<" ", "0", "0", ":", "0", "0", ":", "0", "0">>

\* mtime.strftime('%Y-%m-%d')
strftime_date(mtime) == L_YearMonth \o str_int(10 + mtime)
\* mtime.strftime('%Y-%m-%d %H:%M:%S')
strftime_datetime(mtime) == strftime_date(mtime) \o L_Midnight

(***************************************************************************)
(* _build_frontmatter                                                      *)
(***************************************************************************)
\* s.replace(old, new, 1)
replace_first(s, old, new) ==
    LET at == {k \in 0..(Len(s) - Len(old)) :
                  SubSeq(s, k + 1, k + Len(old)) = old}
    IN IF at = {} THEN s
       ELSE LET k == SetMin(at) IN
            SubSeq(s, 1, k) \o new \o SubSeq(s, k + Len(old) + 1, Len(s))

_build_frontmatter(json_file, title, template, has_gdrive_link, config) ==
    IF json_file.mtime = None THEN [raised |-> FALSE, v |-> <<>>]
    ELSE
      LET cdate == strftime_datetime(json_file.mtime[1])
          f == format(template,
                      "{title}" :> title @@ "{cdate}" :> cdate @@ "{mdate}" :> cdate)
          frontmatter == strip(f.v)
          tag_to_add == get(config, "gdrive_frontmatter_tag", L_TagDefault)
      IN IF f.raised THEN f
         ELSE IF has_gdrive_link /\ config.enable_gdrive_indicator
                 /\ Contains(L_Tags, frontmatter)
         THEN [raised |-> FALSE,
               v |-> replace_first(frontmatter, L_Tags, L_TagsSp \o tag_to_add)]
         ELSE [raised |-> FALSE, v |-> frontmatter]

(***************************************************************************)
(* _build_metadata_table.  runSettings is None for a missing or empty      *)
(* member, else a record of optional members; googleSearch tells whether   *)
(* that key is present and enableSearchAsATool is the flag's truth value.  *)
(***************************************************************************)
RunSettings(model, temperature, topP, topK, googleSearch, enableSearchAsATool) ==
    [model |-> model, temperature |-> temperature, topP |-> topP, topK |-> topK,
     googleSearch |-> googleSearch, enableSearchAsATool |-> enableSearchAsATool]

NoTableLabels ==
    [header_parameter |-> None, header_value |-> None, model |-> None,
     temperature |-> None, top_p |-> None, top_k |-> None, web_search |-> None,
     search_enabled |-> None, search_disabled |-> None]

value_row(label, value) == L_Bar \o label \o L_BarTick \o value \o L_TickBar

_build_metadata_table(log_data, lang_templates) ==
    IF log_data.runSettings = None THEN <<>>
    ELSE
      LET run_settings == log_data.runSettings[1]
          loc == get(lang_templates, "metadata_table", NoTableLabels)
          header_param == get(loc, "header_parameter", L_Parameter)
          header_value == get(loc, "header_value", L_Value)
          clean_model_name == last_segment(get(run_settings, "model", L_NA), "/")
          search_enabled ==
              run_settings.googleSearch \/ run_settings.enableSearchAsATool
          search_text == IF search_enabled
                         THEN get(loc, "search_enabled", L_Enabled)
                         ELSE get(loc, "search_disabled", L_Disabled)
          table_rows ==
              << value_row(get(loc, "model", L_ModelLabel), clean_model_name) >>
              \o (IF run_settings.temperature # None
                  THEN << value_row(get(loc, "temperature", L_TemperatureLabel),
                                    run_settings.temperature[1]) >>
                  ELSE <<>>)
              \o (IF run_settings.topP # None
                  THEN << value_row(get(loc, "top_p", L_TopPLabel),
                                    run_settings.topP[1]) >>
                  ELSE <<>>)
              \o (IF run_settings.topK # None
                  THEN << value_row(get(loc, "top_k", L_TopKLabel),
                                    run_settings.topK[1]) >>
                  ELSE <<>>)
              \o << L_Bar \o get(loc, "web_search", L_WebSearchLabel) \o L_BarMid
                    \o search_text \o L_BarEnd >>
          table_header ==
              L_Bar \o header_param \o L_BarMid \o header_value \o L_BarEnd
                \o L_TableAlign
      IN table_header \o L_NL \o join(L_NL, table_rows)

(***************************************************************************)
(* _write_markdown_file and convert_llm_log_to_markdown.  W.docs holds the *)
(* files of the output directory as [name, content] records.               *)
(***************************************************************************)
write_doc(docs, name, content) ==
    {d \in docs : d.name # name} \cup {[name |-> name, content |-> content]}

MSG_WRITE == "Could not write output file. Details: [Errno 13] Permission denied"
MSG_STRUCTURE ==
    "JSON file contains no 'systemInstruction' and no valid dialog structure."
MSG_JSON == "Invalid JSON format. Details: Expecting value: line 1 column 1 (char 0)"
MSG_READ == "Failed to read file. Details: [Errno 13] Permission denied"

\* the write is refused (IOError) when the output directory is write-protected
_write_markdown_file(md_name, content, W) ==
    IF ~W.writable THEN [success |-> FALSE, error_msg |-> MSG_WRITE, W |-> W]
    ELSE [success |-> TRUE, error_msg |-> "",
          W |-> [W EXCEPT !.outDir = TRUE,
                          !.docs = write_doc(@, md_name, content)]]

\* line 321: the document has essential content
has_essential_content(log_data) ==
    \/ log_data.systemInstruction.k = "obj"
    \/ log_data.chunks # <<>>
    \/ log_data.history # <<>>

\* the result of a call that raised exc
Raised(W, exc) == [success |-> FALSE, error_msg |-> "", W |-> [W EXCEPT !.exc = exc]]

\* lines 324-334: the frontmatter, when enabled; KeyError when it has no value
\* for a placeholder
frontmatter_of(json_file, md_name, config, frontmatter_template, has_gdrive_link) ==
    _build_frontmatter(json_file, get_clean_title(stem(md_name)),
                       frontmatter_template, has_gdrive_link, config)

\* lines 324-347, given the conversation Markdown conversation_md and the
\* world W the turn builder left
finish_conversion(log_data, json_file, md_name, config, lang_templates, frontmatter_template, has_gdrive_link, conversation_md, W) ==
    LET final_title == get_clean_title(stem(md_name))
        fm == frontmatter_of(json_file, md_name, config, frontmatter_template,
                             has_gdrive_link)
        metadata_table == _build_metadata_table(log_data, lang_templates)
        md_parts ==
            (IF config.enable_frontmatter THEN << fm.v >> ELSE <<>>)
            \o << L_H1 \o final_title >>
            \o (IF config.enable_metadata_table /\ metadata_table # <<>>
                THEN << metadata_table, L_TableRule >> ELSE <<>>)
            \o (IF conversation_md # <<>> THEN << conversation_md >> ELSE <<>>)
        final_md_output == join(L_NL2, filter_None(md_parts))
    IN _write_markdown_file(md_name, final_md_output, W)

\* lines 340-347, given what _build_conversation_turns returned
after_build(log_data, json_file, md_name, config, lang_templates, frontmatter_template, has_gdrive_link, conv) ==
    IF conv.W.exc # "" THEN Raised(conv.W, conv.W.exc)
    ELSE finish_conversion(log_data, json_file, md_name, config,
                           lang_templates, frontmatter_template,
                           has_gdrive_link, conv.md, conv.W)

convert_llm_log_to_markdown(log_data, json_file, md_name, config, lang_templates, frontmatter_template, has_gdrive_link, W, env) ==
    IF ~has_essential_content(log_data)
    THEN [success |-> FALSE, error_msg |-> MSG_STRUCTURE, W |-> W]
    ELSE IF /\ config.enable_frontmatter
            /\ frontmatter_of(json_file, md_name, config, frontmatter_template,
                              has_gdrive_link).raised
    THEN Raised(W, "KeyError")
    ELSE after_build(log_data, json_file, md_name, config, lang_templates,
                     frontmatter_template, has_gdrive_link,
                     _build_conversation_turns(
                         log_data, W,
                         [md_name |-> md_name, config |-> config,
                          lang_templates |-> lang_templates,
                          sched |-> env.sched]))

(***************************************************************************)
(* process_files: one iteration of its loop.  S holds the three counters,  *)
(* the world W, the error lines written to the console (messages) and the  *)
(* outcome of every file handled so far; a holds the call's arguments; env *)
(* is what the environment does during the iteration.                      *)
(***************************************************************************)
\* _read_log_data's error_msg
read_error_msg(content) ==
    CASE content.kind = "unreadable" -> MSG_READ
      [] content.kind = "badjson" -> MSG_JSON
      [] OTHER -> ""

\* a test that lets every file content through
log_data_never_falsy(content) == FALSE

\* line 446: not log_data
log_data_is_falsy(content) ==
    content.kind # "json" \/ content.val.t \in {"emptyobj", "falsy"}

\* line 469
base_filename_of(filename) ==
    IF endswith(lower_str(filename), L_DotJson)
    THEN SubSeq(filename, 1, Len(filename) - 5) ELSE filename

\* lines 470-474; config['filename_template'] raises KeyError when missing
new_md_filename_of(config, date_str, base_filename, gdrive_indicator) ==
    IF config.filename_template = None THEN [raised |-> TRUE, v |-> <<>>]
    ELSE format(config.filename_template[1],
                "{date}" :> date_str @@ "{basename}" :> base_filename
                @@ "{gdrive_indicator}" :> gdrive_indicator)

\* a test that finds no destination
never_exists(docs, name) == FALSE

\* line 478: output_md_path.exists()
path_exists(docs, name) == \E d \in docs : d.name = name

Count(S, outcome, stage, msg) ==
    [S EXCEPT
       !.success_count = IF outcome = "success" THEN @ + 1 ELSE @,
       !.skipped_count = IF outcome = "skipped" THEN @ + 1 ELSE @,
       !.error_count = IF outcome = "failed" THEN @ + 1 ELSE @,
       !.messages = IF outcome = "failed"
                    THEN Append(@, [stage |-> stage, msg |-> msg]) ELSE @,
       !.outcome = Append(@, outcome)]

\* an exception leaves the loop: no counter moves
Propagate(S, W, exc) == [S EXCEPT !.W = [W EXCEPT !.exc = exc]]

\* lines 445-479 for one file: read it, name its destination, decide whether
\* to convert it.  next is "convert" when line 482 is reached with a
\* dictionary, "raised" when an exception leaves the loop, "counted" when the
\* file has been counted without a conversion.
resolve(json_file, S, a) ==
    LET content == json_file.content
        config == a.config
        W0 == [S.W EXCEPT !.k = 0]
        Stop(next, S1) == [next |-> next, S |-> S1, md_name |-> <<>>,
                           has_gdrive_link |-> FALSE]
    IN
    IF log_data_is_falsy(content)
    THEN Stop("counted", Count(S, "failed", "reading", read_error_msg(content)))
    ELSE IF json_file.mtime # None /\ config.date_format = None
    THEN Stop("raised", Propagate(S, W0, "KeyError"))
    ELSE
      LET date_str == IF json_file.mtime = None THEN L_NoDate
                      ELSE strftime_date(json_file.mtime[1])
          scans == config.enable_gdrive_indicator /\ ~a.fast_mode
          is_dict == content.val.t = "obj"
          has_gdrive_link ==
              scans /\ _check_for_gdrive_links(content.val.doc)
          gdrive_indicator ==
              IF has_gdrive_link
              THEN get(config, "gdrive_filename_indicator", <<>>) ELSE <<>>
          fn == new_md_filename_of(config, date_str,
                                   base_filename_of(json_file.name),
                                   gdrive_indicator)
      IN
      IF scans /\ ~is_dict THEN Stop("raised", Propagate(S, W0, "AttributeError"))
      ELSE IF fn.raised THEN Stop("raised", Propagate(S, W0, "KeyError"))
      ELSE IF ~a.overwrite /\ path_exists(S.W.docs, fn.v)
      THEN Stop("counted", Count(S, "skipped", "", ""))
      ELSE IF ~is_dict THEN Stop("raised", Propagate(S, W0, "AttributeError"))
      ELSE [next |-> "convert", S |-> [S EXCEPT !.W = W0], md_name |-> fn.v,
            has_gdrive_link |-> has_gdrive_link]

\* lines 485-490: the result r of the conversion is counted
conclude(S, r) ==
    IF r.W.exc # "" THEN Propagate(S, r.W, r.W.exc)
    ELSE IF r.success THEN Count([S EXCEPT !.W = r.W], "success", "", "")
    ELSE Count([S EXCEPT !.W = r.W], "failed", "converting", r.error_msg)

\* lines 481-491, given what lines 445-479 have resolved
convert_resolved(json_file, a, env, res) ==
    IF res.next # "convert" THEN res.S
    ELSE conclude(res.S,
                  convert_llm_log_to_markdown(
                      json_file.content.val.doc, json_file, res.md_name,
                      a.config, a.lang_templates, a.frontmatter_template,
                      res.has_gdrive_link, res.S.W, env))

process_one(json_file, S, a, env) ==
    convert_resolved(json_file, a, env, resolve(json_file, S, a))

T_hi ==
    <<"h", "i">>
T_old ==
    <<"o", "l", "d">>
T_png ==
    <<"i", "m", "a", "g", "e", "/", "p", "n", "g">>
T_note ==
    <<" ", "i", "n", "t", "e", "r", "n", "a", "l", " ", "n", "o", "t", "e",
      "\n">>
T_answer ==
    <<"f", "i", "n", "a", "l", " ", "a", "n", "s", "w", "e", "r">>
T_indicator ==
    <<"[", "A", "]", " ">>
T_User ==
    <<"U", "s", "e", "r">>
T_Model ==
    <<"M", "o", "d", "e", "l">>
T_be ==
    <<"b", "e", " ", "b", "r", "i", "e", "f">>
T_hi_sp ==
    <<" ", "h", "i", " ">>
T_b64_hi ==
    <<"a", "G", "k", "=">>
T_b64_a ==
    <<"Y", "Q", "=", "=">>
T_b64_open ==
    <<"Y", "Q", "=">>
T_b64_loose ==
    <<"a", "G", "l", "=">>
T_id ==
    <<"1", "x">>
T_gem ==
    <<"m", "o", "d", "e", "l", "s", "/", "g", "e", "m", "i", "n", "i">>
T_ThoughtOpen ==
    <<">", " ", "[", "!", "b", "u", "g", "]", "-", " ", "T", "h", "o", "u",
      "g", "h", "t", "s", "\n", ">", " ">>
T_FmOpen ==
    <<"-", "-", "-", "\n", "t", "i", "t", "l", "e", ":", " ">>
T_FmMid ==
    <<"\n", "t", "a", "g", "s", ":", "\n", "c", "d", "a", "t", "e", ":", " ">>
T_FmClose ==
    <<"\n", "-", "-", "-">>


(***************************************************************************)
(* The arguments process_files is called with: configurations, lookup      *)
(* tables and frontmatter templates.                                       *)
(***************************************************************************)
\* "{date} - {gdrive_indicator}{basename}.md"
FilenameTemplate ==
    <<"{date}">> \o L_SpDashSp \o <<"{gdrive_indicator}", "{basename}">> \o L_DotMd

\* the minimal_config of tests/conftest.py
MinimalConfig ==
    [enable_gdrive_indicator |-> TRUE,
     gdrive_filename_indicator |-> Some(T_indicator),
     gdrive_frontmatter_tag |-> None,
     filename_template |-> Some(FilenameTemplate),
     date_format |-> Some("%Y-%m-%d"),
     enable_frontmatter |-> FALSE,
     enable_metadata_table |-> FALSE,
     enable_grounding_metadata |-> FALSE]

\* every section enabled, the Drive indicator off
FullConfig ==
    [MinimalConfig EXCEPT !.enable_gdrive_indicator = FALSE,
                          !.enable_frontmatter = TRUE,
                          !.enable_metadata_table = TRUE,
                          !.enable_grounding_metadata = TRUE]

\* the lang_templates the tests pass: the two role headers only
MinimalLang ==
    [user_header |-> Some(T_User), model_header |-> Some(T_Model),
     thought_block_template |-> None, system_instruction_header |-> None,
     system_instruction_template |-> None, metadata_table |-> None,
     grounding_metadata |-> None]

\* a lookup table with a thought-block template and no role headers
ThoughtLang ==
    [MinimalLang EXCEPT !.user_header = None, !.model_header = None,
                        !.thought_block_template =
                            Some(T_ThoughtOpen \o <<"{thought_text}">>)]

\* a frontmatter template with the three placeholders and a tags line
FrontmatterTemplate ==
    T_FmOpen \o <<"{title}">> \o T_FmMid \o <<"{cdate}">> \o T_FmClose

\* the arguments of one call of process_files, overwrite apart
CallArgs ==
    {[config |-> MinimalConfig, lang_templates |-> MinimalLang,
      frontmatter_template |-> <<>>, fast_mode |-> FALSE],
     [config |-> MinimalConfig, lang_templates |-> ThoughtLang,
      frontmatter_template |-> <<>>, fast_mode |-> TRUE],
     [config |-> FullConfig, lang_templates |-> ThoughtLang,
      frontmatter_template |-> FrontmatterTemplate, fast_mode |-> FALSE]}

(***************************************************************************)
(* The source files a batch is drawn from.                                 *)
(***************************************************************************)
Unreadable == [kind |-> "unreadable", val |-> [t |-> "none", doc |-> EmptyDoc]]
BadJson == [kind |-> "badjson", val |-> [t |-> "none", doc |-> EmptyDoc]]
\* the JSON text {}
EmptyObject == [kind |-> "json", val |-> [t |-> "emptyobj", doc |-> EmptyDoc]]
\* a JSON text that is a non-empty array, such as [1]
NonDict == [kind |-> "json", val |-> [t |-> "nondict", doc |-> EmptyDoc]]
\* a JSON text that is a non-empty object
Object(doc) == [kind |-> "json", val |-> [t |-> "obj", doc |-> doc]]

File(name, content, mtime) == [name |-> name, content |-> content, mtime |-> mtime]

UserChunk(t) == [EmptyChunk EXCEPT !.role = Some(L_user), !.text = Text(t)]
ModelChunk(t) == [EmptyChunk EXCEPT !.role = Some(L_model), !.text = Text(t)]
ThoughtChunk(t) == [ModelChunk(t) EXCEPT !.isThought = TRUE]
Image(data) == Some(InlineData(T_png, data))

\* {"foo": 1}: an object with neither a system instruction nor a conversation
DocNoContent == EmptyDoc
\* only pendingInputs, holding a Drive image
DocPendingOnly ==
    [EmptyDoc EXCEPT
       !.pendingInputs = << [UserChunk(T_hi) EXCEPT
                               !.driveImage = Some(Drive(T_id, None))] >>]
\* a system instruction, and pendingInputs holding a Drive image
DocSysPending == [DocPendingOnly EXCEPT !.systemInstruction = Sys(Text(T_be))]
\* a Drive document inside parts, then a thought and an answer
DocDriveThought ==
    [EmptyDoc EXCEPT
       !.chunks = << [EmptyChunk EXCEPT
                        !.role = Some(L_user),
                        !.parts = << [EmptyPart EXCEPT
                                        !.driveDocument =
                                            Some(Drive(T_id, Some(T_hi)))] >>],
                     ThoughtChunk(T_note), ModelChunk(T_answer) >>,
       !.runSettings = Some(RunSettings(Some(T_gem), None, None, None,
                                        FALSE, TRUE))]
\* a Drive video on the chunk and an embedded image inside its parts
DocDriveImage ==
    [EmptyDoc EXCEPT
       !.chunks = << [EmptyChunk EXCEPT
                        !.role = Some(L_user),
                        !.driveVideo = Some(Drive(T_id, None)),
                        !.parts = << [EmptyPart EXCEPT
                                        !.inlineData = Image(T_b64_hi)] >>] >>]
\* two embedded images inside the parts of one chunk
DocTwoImages ==
    [EmptyDoc EXCEPT
       !.chunks = << [EmptyChunk EXCEPT
                        !.role = Some(L_user),
                        !.parts = << [EmptyPart EXCEPT
                                        !.inlineData = Image(T_b64_hi)],
                                     [EmptyPart EXCEPT
                                        !.inlineData = Image(T_b64_a)] >>] >>]

N_a == <<"a">>
N_b == <<"b">>
N_a_json == <<"a", ".", "j", "s", "o", "n">>

\* the files whose conversion can be run a second time
RerunFiles ==
    {File(N_b, BadJson, Some(0)),
     File(N_a, Object(DocNoContent), Some(0)),
     File(N_a, Object(DocSysPending), Some(0)),
     File(N_b, Object(DocDriveImage), Some(0))}

SourceFiles ==
    RerunFiles
    \cup {File(N_a, Unreadable, Some(0)),
          File(N_a, EmptyObject, Some(0)),
          File(N_b, NonDict, Some(0)),
          File(N_b, Object(DocPendingOnly), None),
          File(N_a_json, Object(DocDriveThought), Some(0))}

\* the longest list of files a batch is called with
MaxFiles == 2

RECURSIVE SeqsUpTo(_, _)
SeqsUpTo(S, n) ==
    IF n = 0 THEN {<<>>}
    ELSE LET shorter == SeqsUpTo(S, n - 1) IN
         shorter \cup {Append(q, x) : q \in {p \in shorter : Len(p) = n - 1}, x \in S}

\* the output directory before the first call: missing; or holding a document
\* left by an earlier conversion, and either accepting writes or write-protected
OldDocName == strftime_date(0) \o L_SpDashSp \o N_a \o L_DotMd
MissingDir ==
    [docs |-> {}, assets |-> {}, outDir |-> FALSE, assetsDir |-> FALSE,
     writable |-> TRUE, now |-> 0, k |-> 0, exc |-> "", saved |-> <<>>]
UsedDir ==
    [MissingDir EXCEPT !.outDir = TRUE,
                       !.docs = {[name |-> OldDocName, content |-> T_old]}]
ProtectedDir == [UsedDir EXCEPT !.writable = FALSE]
InitialWorlds == {MissingDir, UsedDir, ProtectedDir}

\* the calls of save_image_from_base64 the turn builder can make on chunks
RECURSIVE count_saves(_)
count_saves(chunks) ==
    IF chunks = <<>> THEN 0
    ELSE (IF has_inline(Head(chunks)) THEN 1 ELSE 0)
         + Len(SelectSeq(Head(chunks).parts,
                         LAMBDA p : has_inline(p) /\ p.text.k # "str"))
         + count_saves(Tail(chunks))

\* what the environment may do during the calls of save_image_from_base64:
\* per call, whether the clock has reached the next millisecond and whether
\* the write of the asset file fails
Schedules(n) == [1..n -> [tick : {0, 1}, fail : BOOLEAN]]
Environments(content) ==
    [sched : Schedules(IF content.kind = "json"
                       THEN count_saves(conversation_source(content.val.doc))
                       ELSE 0)]

(***************************************************************************)
(* The state.                                                              *)
(***************************************************************************)
VARIABLES
    files_to_process,     \* process_files' arguments
    overwrite,
    fast_mode,
    config,
    lang_templates,
    frontmatter_template,
    pc,                   \* "loop", "convert", "turns", "returned" or "raised"
    index,                \* the next file of files_to_process, from 1
    success_count,
    skipped_count,
    error_count,
    messages,             \* the error lines written to the console
    outcome,              \* the outcome of each file handled in this call
    W,                    \* the output directory, the clock, the exception
    call,                 \* 1 in the first call of process_files, 2 in the second
    first_call,           \* the outcomes and files the first call left
    has_gdrive_link,      \* process_files' locals during a conversion
    output_md_name,
    B,                    \* the turn builder's locals during a conversion
    given_title,          \* the string get_clean_title is first called on
    clean_titles,         \* what its successive applications returned
    parts_loop,           \* the locals of the loop over a chunk's parts array
    given_grounding,      \* the object format_grounding_data is called on
    grounding_block,      \* what it returned
    scan_root,            \* the path find_json_files is called on
    scan_recursive,       \* its argument recursive
    found_files,          \* what it returned and the files it opened
    watcher,              \* watch mode: the clock, the event handler, the files
    gui                   \* the window: the start button, the threads, the main loop

call_vars ==
    <<files_to_process, overwrite, fast_mode, config, lang_templates,
      frontmatter_template>>
loop_vars ==
    <<pc, index, success_count, skipped_count, error_count, messages,
      outcome, W>>
conversion_vars == <<has_gdrive_link, output_md_name, B>>

title_vars == <<given_title, clean_titles>>
part_vars == <<parts_loop>>
grounding_vars == <<given_grounding, grounding_block>>
find_vars == <<scan_root, scan_recursive, found_files>>
\* the variables of the functions and components that are run on their own
function_vars == <<title_vars, part_vars, grounding_vars, find_vars, watcher, gui>>

vars ==
    <<call_vars, loop_vars, call, first_call, conversion_vars, function_vars>>

LoopState ==
    [success_count |-> success_count, skipped_count |-> skipped_count,
     error_count |-> error_count, W |-> W, messages |-> messages,
     outcome |-> outcome]

CurrentArgs ==
    [overwrite |-> overwrite, fast_mode |-> fast_mode, config |-> config,
     lang_templates |-> lang_templates,
     frontmatter_template |-> frontmatter_template]

NoFirstCall == [outcome |-> <<>>, docs |-> {}, assets |-> {}, done |-> FALSE]

\* the loop's state becomes S
LoopBecomes(S) ==
    /\ success_count' = S.success_count
    /\ skipped_count' = S.skipped_count
    /\ error_count' = S.error_count
    /\ messages' = S.messages
    /\ outcome' = S.outcome
    /\ W' = S.W
    /\ pc' = IF S.W.exc # "" THEN "raised" ELSE "loop"
    /\ index' = IF S.W.exc # "" THEN index ELSE index + 1

\* no parts array is being looped over
\* format_grounding_data is not being run on its own
NoGrounding == given_grounding = None /\ grounding_block = None

\* find_json_files is not being run on its own
NoFind == scan_root = None /\ scan_recursive = FALSE /\ found_files = None

\* watch mode is not running
NoWatch == watcher = None
NoGui == gui = None

NoPartsLoop ==
    [T |-> [turn_content |-> <<>>, pending_thoughts |-> <<>>,
            grounding_data |-> None, W |-> MissingDir],
     parts |-> <<>>, n |-> 1, part_content |-> <<>>]

\* process_files is entered with the list Files, one of Args and a world
CallInit(Files, Args, Worlds) ==
    /\ files_to_process \in Files
    /\ overwrite \in BOOLEAN
    /\ \E a \in Args :
          /\ config = a.config
          /\ lang_templates = a.lang_templates
          /\ frontmatter_template = a.frontmatter_template
          /\ fast_mode = a.fast_mode
    /\ pc = "loop"
    /\ index = 1
    /\ success_count = 0
    /\ skipped_count = 0
    /\ error_count = 0
    /\ messages = <<>>
    /\ outcome = <<>>
    /\ W \in Worlds
    /\ call = 1
    /\ first_call = NoFirstCall
    /\ has_gdrive_link = FALSE
    /\ output_md_name = <<>>
    /\ B = BuildStart(MissingDir)
    /\ given_title = <<>>
    /\ clean_titles = <<>>
    /\ parts_loop = NoPartsLoop
    /\ NoGrounding
    /\ NoFind
    /\ NoWatch
    /\ NoGui

Init == CallInit(SeqsUpTo(SourceFiles, MaxFiles), CallArgs, InitialWorlds)

\* lines 443-491: the loop handles files_to_process[index]
ProcessFile ==
    /\ pc = "loop"
    /\ index <= Len(files_to_process)
    /\ \E env \in Environments(files_to_process[index].content) :
          LoopBecomes(process_one(files_to_process[index], LoopState,
                                  CurrentArgs, env))
    /\ UNCHANGED <<call_vars, call, first_call, conversion_vars, function_vars>>

\* lines 435-436 and 493-498: the call returns its tally
Return ==
    /\ pc = "loop"
    /\ index > Len(files_to_process)
    /\ pc' = "returned"
    /\ UNCHANGED <<call_vars, index, success_count, skipped_count, error_count,
                   messages, outcome, W, call, first_call, conversion_vars,
                   function_vars>>

Next == ProcessFile \/ Return

Spec == Init /\ [][Next]_vars

(***************************************************************************)
(* The same batch run twice: after the first call has returned, the caller *)
(* calls process_files again on the same list, with the same configuration *)
(* and either overwrite policy.                                            *)
(***************************************************************************)
InitRerun ==
    CallInit(SeqsUpTo(RerunFiles, MaxFiles)
                 \cup {<< File(N_b, Object(DocTwoImages), Some(0)) >>},
             CallArgs, InitialWorlds)

CallAgain ==
    /\ pc = "returned"
    /\ call = 1
    /\ call' = 2
    /\ first_call' = [outcome |-> outcome, docs |-> W.docs,
                      assets |-> W.assets, done |-> TRUE]
    /\ overwrite' \in BOOLEAN
    /\ pc' = "loop"
    /\ index' = 1
    /\ success_count' = 0
    /\ skipped_count' = 0
    /\ error_count' = 0
    /\ messages' = <<>>
    /\ outcome' = <<>>
    /\ UNCHANGED <<files_to_process, fast_mode, config, lang_templates,
                   frontmatter_template, W, conversion_vars, function_vars>>

NextRerun == ProcessFile \/ Return \/ CallAgain

SpecRerun == InitRerun /\ [][NextRerun]_vars

(***************************************************************************)
(* One file converted step by step: process_files is called with a single  *)
(* file holding a document built from the chunks below, and the loop body  *)
(* runs as the steps Resolve, BeginConversion, TurnStep (one iteration of   *)
(* the turn builder's scan) and FinishConversion.                          *)
(***************************************************************************)
T_blank == <<" ", " ">>
C_user == UserChunk(T_hi)
C_answer == ModelChunk(T_answer)
C_thought == ThoughtChunk(T_note)
C_afterthought == ThoughtChunk(T_old)
\* a thought whose text is only whitespace
C_blank == ThoughtChunk(T_blank)
\* a Drive image on the chunk
C_drive ==
    [EmptyChunk EXCEPT !.role = Some(L_user),
                       !.driveImage = Some(Drive(T_id, None))]
\* an embedded image on the chunk and a Drive document inside parts
C_image ==
    [EmptyChunk EXCEPT
       !.role = Some(L_user),
       !.inlineData = Image(T_b64_hi),
       !.parts = << [EmptyPart EXCEPT
                       !.driveDocument = Some(Drive(T_id, Some(T_hi)))] >>]
\* parts holding an embedded image, and a text together with an embedded image
C_parts ==
    [EmptyChunk EXCEPT
       !.role = Some(L_user),
       !.parts = << [EmptyPart EXCEPT !.inlineData = Image(T_b64_a)],
                    [EmptyPart EXCEPT !.text = Text(T_answer),
                                      !.inlineData = Image(T_b64_loose)] >>]

\* a chunk without a role
C_norole == [EmptyChunk EXCEPT !.text = Text(T_old)]

\* a user chunk whose text is only whitespace
C_space == UserChunk(T_blank)

TurnChunks ==
    {C_user, C_answer, C_thought, C_afterthought, C_blank, C_drive, C_image,
     C_parts, C_norole, C_space}

\* the longest conversation source of a document
MaxChunks == 2

\* a system instruction of two lines, with whitespace around it
T_rules == <<" ", "b", "e", "\n", "b", "r", "i", "e", "f", "\n">>

\* the chunk list cs as a document's chunk list next to a history, as its
\* pending inputs next to a history, as its pending inputs alone, and as its
\* history next to a system instruction
Documents ==
    UNION {{[EmptyDoc EXCEPT !.chunks = cs, !.history = << C_drive >>],
            [EmptyDoc EXCEPT !.pendingInputs = cs, !.history = << C_answer >>],
            [EmptyDoc EXCEPT !.pendingInputs = cs],
            [EmptyDoc EXCEPT !.history = cs,
                             !.systemInstruction = Sys(Text(T_rules))]}
           : cs \in SeqsUpTo(TurnChunks, MaxChunks)}

\* the calls that scan for Drive attachments or render every section
TurnArgs ==
    {a \in CallArgs : ~a.fast_mode}
    \cup {[config |-> MinimalConfig, lang_templates |-> ThoughtLang,
           frontmatter_template |-> <<>>, fast_mode |-> FALSE]}

InitTurns ==
    /\ CallInit({<< File(N_a, Object(doc), Some(0)) >> : doc \in Documents},
                TurnArgs, {UsedDir})
    /\ overwrite

json_path == files_to_process[index]
log_data == json_path.content.val.doc
chunks == conversation_source(log_data)
\* the chunks the iteration that starts at index i consumes
run_at(i) ==
    IF has_role(chunks[i])
    THEN SubSeq(chunks, i, run_end(chunks, i, chunks[i].role[1]) - 1)
    ELSE <<>>
Ctx(sched) ==
    [md_name |-> output_md_name, config |-> config,
     lang_templates |-> lang_templates, sched |-> sched]

\* the loop continues from what resolve returned
Resolved(res) ==
    IF res.next = "convert"
    THEN /\ pc' = "convert"
         /\ W' = res.S.W
         /\ has_gdrive_link' = res.has_gdrive_link
         /\ output_md_name' = res.md_name
         /\ UNCHANGED <<index, success_count, skipped_count, error_count,
                        messages, outcome>>
    ELSE /\ LoopBecomes(res.S)
         /\ UNCHANGED <<has_gdrive_link, output_md_name>>

\* lines 445-479
Resolve ==
    /\ pc = "loop"
    /\ index <= Len(files_to_process)
    /\ Resolved(resolve(json_path, LoopState, CurrentArgs))
    /\ UNCHANGED <<call_vars, call, first_call, B, function_vars>>

\* lines 320-330: the check for essential content, and the frontmatter
BeginConversion ==
    /\ pc = "convert"
    /\ IF ~has_essential_content(log_data)
       THEN /\ LoopBecomes(conclude(LoopState,
                   [success |-> FALSE, error_msg |-> MSG_STRUCTURE, W |-> W]))
            /\ B' = B
       ELSE IF /\ config.enable_frontmatter
               /\ frontmatter_of(json_path, output_md_name, config,
                                 frontmatter_template, has_gdrive_link).raised
       THEN /\ LoopBecomes(conclude(LoopState, Raised(W, "KeyError")))
            /\ B' = B
       ELSE /\ pc' = "turns"
            /\ B' = BuildStart(W)
            /\ UNCHANGED <<index, success_count, skipped_count, error_count,
                           messages, outcome, W>>
    /\ UNCHANGED <<call_vars, call, first_call, has_gdrive_link,
                   output_md_name, function_vars>>

\* the scan's state becomes B1; an exception leaves the loop of process_files
ScanBecomes(B1) ==
    /\ B' = B1
    /\ IF B1.W.exc # ""
       THEN LoopBecomes(conclude(LoopState, Raised(B1.W, B1.W.exc)))
       ELSE UNCHANGED loop_vars

\* lines 111-197: one iteration of the scan over the conversation source
TurnStep ==
    /\ pc = "turns"
    /\ B.i <= Len(chunks)
    /\ \E sched \in Schedules(count_saves(run_at(B.i))) :
          ScanBecomes(turn_step([B EXCEPT !.W.k = 0], chunks,
                                system_instruction_of(log_data), Ctx(sched)))
    /\ UNCHANGED <<call_vars, call, first_call, has_gdrive_link,
                   output_md_name, function_vars>>

\* lines 199 and 332-347, then lines 485-491
FinishConversion ==
    /\ pc = "turns"
    /\ B.i > Len(chunks)
    /\ LoopBecomes(conclude(LoopState,
           finish_conversion(log_data, json_path, output_md_name, config,
                             lang_templates, frontmatter_template,
                             has_gdrive_link,
                             join_turns(B.conversation_turns), B.W)))
    /\ UNCHANGED <<call_vars, call, first_call, conversion_vars, function_vars>>

NextTurns ==
    Resolve \/ BeginConversion \/ TurnStep \/ FinishConversion \/ Return

SpecTurns == InitTurns /\ [][NextTurns]_vars

(***************************************************************************)
(* The step-by-step conversion of documents whose chunks carry embedded    *)
(* attachments: payloads that decode, a payload with incorrect padding, on *)
(* the chunk and twice inside parts, and a payload with a non-ASCII        *)
(* character; and of two files that share the destination base name.       *)
(***************************************************************************)
T_b64_accent == <<"é">>
C_open ==
    [EmptyChunk EXCEPT !.role = Some(L_user), !.inlineData = Image(T_b64_open)]
C_open_twice ==
    [EmptyChunk EXCEPT
       !.role = Some(L_user),
       !.parts = << [EmptyPart EXCEPT !.inlineData = Image(T_b64_open)],
                    [EmptyPart EXCEPT !.inlineData = Image(T_b64_open)] >>]
C_accent ==
    [EmptyChunk EXCEPT !.role = Some(L_user),
                       !.inlineData = Image(T_b64_accent)]
C_two == DocTwoImages.chunks[1]

AssetChunks ==
    {C_image, C_parts, C_open, C_open_twice, C_accent, C_two, C_answer}

AssetDocuments ==
    {[EmptyDoc EXCEPT !.chunks = cs]
       : cs \in SeqsUpTo(AssetChunks, MaxChunks) \ {<<>>}}

SameBaseName ==
    << File(N_a, Object([EmptyDoc EXCEPT !.chunks = << C_image >>]), Some(0)),
       File(N_a_json, Object([EmptyDoc EXCEPT !.chunks = << C_image >>]),
            Some(0)) >>

InitAssets ==
    /\ CallInit({<< File(N_a, Object(doc), Some(0)) >> : doc \in AssetDocuments}
                    \cup {SameBaseName},
                {a \in CallArgs : a.lang_templates = MinimalLang}, {UsedDir})
    /\ overwrite

SpecAssets == InitAssets /\ [][NextTurns]_vars

(***************************************************************************)
(* get_clean_title on its own: a caller applies it to a title, then to     *)
(* what it returned.  The titles are built from the pieces below: a date   *)
(* prefix, one that ends right after the hyphen, one with a letter among   *)
(* its digits, one with a non-ASCII digit, a word, a space and a line      *)
(* break.                                                                  *)
(***************************************************************************)
T_DatePrefix ==
    <<"2", "0", "2", "5", "-", "0", "8", "-", "1", "5", " ", "-", " ">>
T_DateHyphen ==
    <<"2", "0", "2", "5", "-", "0", "8", "-", "1", "5", " ", "-">>
T_DateLetter ==
    <<"2", "0", "2", "5", "-", "0", "8", "-", "1", "x", " ", "-", " ">>
T_DateArabic ==
    <<"2", "0", "2", "5", "-", "0", "8", "-", "1", ArabicThree, " ", "-", " ">>
T_Log ==
    <<"L", "o", "g">>

TitlePieces ==
    {T_DatePrefix, T_DateHyphen, T_DateLetter, T_DateArabic, T_Log,
     <<" ">>, <<"\n">>}

\* the most pieces a title is built from
MaxTitleParts == 3

\* the most times the function is applied in a row
MaxApplications == 2

Titles == {Flatten(ps) : ps \in SeqsUpTo(TitlePieces, MaxTitleParts)}

\* process_files is not running: its arguments and locals have no part in
\* what follows
NoCall ==
    /\ files_to_process = <<>>
    /\ overwrite = FALSE
    /\ frontmatter_template = <<>>
    /\ index = 1
    /\ success_count = 0
    /\ skipped_count = 0
    /\ error_count = 0
    /\ messages = <<>>
    /\ outcome = <<>>
    /\ call = 1
    /\ first_call = NoFirstCall
    /\ has_gdrive_link = FALSE
    /\ B = BuildStart(MissingDir)

InitTitle ==
    /\ NoCall
    /\ fast_mode = FALSE
    /\ given_title \in Titles
    /\ clean_titles = <<>>
    /\ pc = "title"
    /\ config = MinimalConfig
    /\ lang_templates = MinimalLang
    /\ W = MissingDir
    /\ output_md_name = <<>>
    /\ parts_loop = NoPartsLoop
    /\ NoGrounding
    /\ NoFind
    /\ NoWatch
    /\ NoGui

\* lines 212-223, applied to the title or to the last result
CleanTitle ==
    /\ pc = "title"
    /\ Len(clean_titles) < MaxApplications
    /\ clean_titles' =
          Append(clean_titles,
                 get_clean_title(IF clean_titles = <<>> THEN given_title
                                 ELSE clean_titles[Len(clean_titles)]))
    /\ UNCHANGED <<call_vars, loop_vars, call, first_call, conversion_vars,
                   given_title, part_vars, grounding_vars, find_vars, watcher, gui>>

NextTitle == CleanTitle

SpecTitle == InitTitle /\ [][NextTitle]_vars

(***************************************************************************)
(* The loop over the parts array of one chunk (lines 167-186), entry by    *)
(* entry.  The turn it works on is the turn as the lines before the loop   *)
(* leave it: empty, holding the chunk's own text, holding the system       *)
(* instruction block, or being a model turn with a pending thought block.  *)
(***************************************************************************)
T_final == <<"f", "i", "n", "a", "l">>

PartEntries ==
    {EmptyPart,
     [EmptyPart EXCEPT !.text = Text(T_hi_sp)],
     [EmptyPart EXCEPT !.text = Text(T_answer)],
     [EmptyPart EXCEPT !.text = Text(T_final)],
     [EmptyPart EXCEPT !.inlineData = Image(T_b64_hi)],
     [EmptyPart EXCEPT !.driveDocument = Some(Drive(T_id, Some(T_hi)))],
     [EmptyPart EXCEPT !.text = Text(T_old),
                       !.driveDocument = Some(Drive(T_id, Some(T_hi)))],
     [EmptyPart EXCEPT !.text = Text(T_old), !.inlineData = Image(T_b64_hi)],
     [EmptyPart EXCEPT !.youtubeVideo = Some(YouTube(T_id))]}

\* the longest parts array
MaxParts == 2

PartsCtx(sched) ==
    [md_name |-> OldDocName, config |-> MinimalConfig,
     lang_templates |-> ThoughtLang, sched |-> sched]

\* lines 125-165 on the chunks before the parts array is reached
before_parts(current_role, system_instruction, turn_chunks) ==
    process_chunks(start_turn(BuildStart(UsedDir), current_role,
                              system_instruction, PartsCtx(<<>>)),
                   turn_chunks, current_role, PartsCtx(<<>>))

TurnsBeforeParts ==
    {before_parts(L_user, <<>>, << [C_user EXCEPT !.text = NoText] >>),
     before_parts(L_user, <<>>, << UserChunk(T_answer) >>),
     before_parts(L_user, T_hi, << [C_user EXCEPT !.text = NoText] >>),
     before_parts(L_model, <<>>,
                  << ThoughtChunk(T_hi), [C_answer EXCEPT !.text = NoText] >>)}

InitParts ==
    /\ NoCall
    /\ fast_mode = FALSE
    /\ pc = "parts"
    /\ config = MinimalConfig
    /\ lang_templates = ThoughtLang
    /\ W = UsedDir
    /\ output_md_name = OldDocName
    /\ given_title = <<>>
    /\ clean_titles = <<>>
    /\ NoGrounding
    /\ NoFind
    /\ NoWatch
    /\ NoGui
    /\ \E T0 \in TurnsBeforeParts, ps \in SeqsUpTo(PartEntries, MaxParts) :
          parts_loop = [T |-> T0, parts |-> ps, n |-> 1, part_content |-> <<>>]

\* lines 167-186: one iteration of `for part in chunk.get('parts', [])`
PartStep ==
    /\ pc = "parts"
    /\ parts_loop.n <= Len(parts_loop.parts)
    /\ parts_loop.T.W.exc = ""
    /\ \E sched \in Schedules(1) :
          LET ctx == [md_name |-> output_md_name, config |-> config,
                      lang_templates |-> lang_templates, sched |-> sched]
              T == [parts_loop.T EXCEPT !.W.k = 0]
              part == parts_loop.parts[parts_loop.n]
          IN parts_loop' =
                 [parts_loop EXCEPT
                    !.T = process_part(T, part, ctx),
                    !.part_content = part_content_of(part, T.W, ctx).part_content,
                    !.n = @ + 1]
    /\ UNCHANGED <<call_vars, loop_vars, call, first_call, conversion_vars,
                   title_vars, grounding_vars, find_vars, watcher, gui>>

NextParts == PartStep

SpecParts == InitParts /\ [][NextParts]_vars

(***************************************************************************)
(* The step-by-step conversion of documents whose chunks carry grounding   *)
(* objects: on an answer, on a second answer, on a thought, on a user      *)
(* chunk, and an empty one ({}), with grounding rendering on and off.      *)
(***************************************************************************)
T_query == <<"t", "l", "a">>
T_uri ==
    <<"h", "t", "t", "p", "s", ":", "/", "/", "A", ".", "i", "o", "/", "p">>
T_one == <<"1">>

G_full ==
    Grounding(<< T_query >>, << Source(Some(T_uri), Some(T_hi), Some(T_one)) >>)
G_queries == Grounding(<< T_query >>, <<>>)

C_cited == [C_answer EXCEPT !.grounding = Some(G_full)]
C_recited == [ModelChunk(T_hi) EXCEPT !.grounding = Some(G_queries)]
C_thought_cited == [C_thought EXCEPT !.grounding = Some(G_queries)]
C_asked == [C_user EXCEPT !.grounding = Some(G_full)]
C_uncited == [ModelChunk(T_old) EXCEPT !.grounding = Some(EmptyGrounding)]

GroundingChunks ==
    {C_cited, C_recited, C_thought_cited, C_asked, C_uncited, C_answer}

GroundingDocuments ==
    {[EmptyDoc EXCEPT !.chunks = cs]
       : cs \in SeqsUpTo(GroundingChunks, MaxChunks) \ {<<>>}}

InitGrounding ==
    /\ CallInit({<< File(N_a, Object(doc), Some(0)) >>
                   : doc \in GroundingDocuments},
                {a \in CallArgs : a.lang_templates = ThoughtLang}, {UsedDir})
    /\ overwrite

SpecGrounding == InitGrounding /\ [][NextTurns]_vars

(***************************************************************************)
(* The step-by-step conversion of documents of up to three chunks in which *)
(* a speaker's chunks are separated by a chunk without a role, by a turn   *)
(* of another speaker that has no content, or by a turn that has content.  *)
(***************************************************************************)
\* the longest chunk list of these documents
MaxSpeakerChunks == 3

SpeakerChunks == {C_user, C_answer, C_norole, C_space, C_blank}

SpeakerDocuments ==
    {[EmptyDoc EXCEPT !.chunks = cs]
       : cs \in SeqsUpTo(SpeakerChunks, MaxSpeakerChunks) \ {<<>>}}

InitSpeakers ==
    /\ CallInit({<< File(N_a, Object(doc), Some(0)) >>
                   : doc \in SpeakerDocuments},
                {a \in CallArgs : a.lang_templates = ThoughtLang}, {UsedDir})
    /\ overwrite

SpecSpeakers == InitSpeakers /\ [][NextTurns]_vars

(***************************************************************************)
(* format_grounding_data on its own, applied to grounding objects with no, *)
(* one or two queries and with sources that have a title and a URI, a URI  *)
(* only, an empty title, a title only, a URI without a host, or nothing;   *)
(* under the built-in labels and under labels of the lookup table.         *)
(***************************************************************************)
T_nohost == <<"n", "o", "h", "o", "s", "t">>
T_Quellen == <<"Q", "u", "e", "l", "l", "e", "n">>

SourceEntries ==
    {Source(Some(T_uri), Some(T_hi), Some(T_one)),
     Source(Some(T_uri), None, Some(T_one)),
     Source(Some(T_uri), Some(<<>>), None),
     Source(None, Some(T_old), Some(T_one)),
     Source(Some(T_nohost), None, Some(T_one)),
     Source(None, None, None)}

QueryLists == {<<>>, << T_query >>, << T_query, T_hi >>}

\* the longest groundingSources list
MaxSources == 2

GroundingObjects ==
    {Grounding(queries, sources) :
        queries \in QueryLists, sources \in SeqsUpTo(SourceEntries, MaxSources)}

\* a lookup table whose grounding labels name the sources header only
LabelLang ==
    [MinimalLang EXCEPT
       !.grounding_metadata =
           Some([NoGroundingLabels EXCEPT !.sources_header = Some(T_Quellen)])]

InitFormat ==
    /\ NoCall
    /\ fast_mode = FALSE
    /\ pc = "grounding"
    /\ config = FullConfig
    /\ lang_templates \in {MinimalLang, LabelLang}
    /\ W = MissingDir
    /\ output_md_name = <<>>
    /\ given_title = <<>>
    /\ clean_titles = <<>>
    /\ parts_loop = NoPartsLoop
    /\ NoFind
    /\ NoWatch
    /\ NoGui
    /\ given_grounding \in GroundingObjects
    /\ grounding_block = None

\* lines 274-297
FormatGrounding ==
    /\ pc = "grounding"
    /\ grounding_block = None
    /\ grounding_block' =
          Some(format_grounding_data(given_grounding, lang_templates))
    /\ UNCHANGED <<call_vars, loop_vars, call, first_call, conversion_vars,
                   title_vars, part_vars, given_grounding, find_vars, watcher, gui>>

NextFormat == FormatGrounding

SpecFormat == InitFormat /\ [][NextFormat]_vars

(***************************************************************************)
(* find_json_files.  A path is a record: whether it exists, whether it is  *)
(* a file, its name, its content when it is a file, and when it is a       *)
(* directory the files under it, each with its parts below the directory   *)
(* and its content: "json" (opens and parses), "text" (opens, does not     *)
(* parse) or "denied" (open raises PermissionError).  A returned path is   *)
(* the sequence of its parts, the name of the root first.                  *)
(***************************************************************************)
\* pathlib: PurePath.suffix of a file name
suffix(name) ==
    LET at == {i \in 1..Len(name) : name[i] = "."} IN
    IF at = {} THEN <<>>
    ELSE LET i == SetMax(at) IN
         IF 1 < i /\ i < Len(name) THEN SubSeq(name, i, Len(name)) ELSE <<>>

\* ord(c) - 31, for printable ASCII
ord(c) == CHOOSE i \in 1..Len(PrintableAscii) : PrintableAscii[i] = c

\* s < t for two strings
RECURSIVE str_less(_, _)
str_less(s, t) ==
    IF t = <<>> THEN FALSE
    ELSE IF s = <<>> THEN TRUE
    ELSE IF s[1] = t[1] THEN str_less(Tail(s), Tail(t))
    ELSE ord(s[1]) < ord(t[1])

\* PurePath.__lt__: the parts are compared as lists of strings
RECURSIVE path_less(_, _)
path_less(p, q) ==
    IF q = <<>> THEN FALSE
    ELSE IF p = <<>> THEN TRUE
    ELSE IF p[1] = q[1] THEN path_less(Tail(p), Tail(q))
    ELSE str_less(p[1], q[1])

\* sorted(paths)
RECURSIVE sorted(_)
sorted(paths) ==
    IF paths = {} THEN <<>>
    ELSE LET least == CHOOSE p \in paths :
                          \A q \in paths \ {p} : path_less(p, q)
         IN << least >> \o sorted(paths \ {least})

N_config == <<"c", "o", "n", "f", "i", "g", ".", "y", "a", "m", "l">>
N_crash == <<"c", "r", "a", "s", "h", "_", "l", "o", "g", ".", "t", "x", "t">>
N_template(lang) ==
    <<"f", "r", "o", "n", "t", "m", "a", "t", "t", "e", "r", "_", "t", "e",
      "m", "p", "l", "a", "t", "e", "_">> \o lang \o <<".", "t", "x", "t">>

\* config.py line 19
CONFIG_FILE_NAME == N_config
\* imported from config.py at line 13, where no line defines it
CRASH_LOG_FILE == N_crash

\* line 398
ignore_filenames ==
    {CONFIG_FILE_NAME, CRASH_LOG_FILE, N_template(<<"e", "n">>),
     N_template(<<"r", "u">>)}

\* the files path.glob yields that are files (lines 366-369, 383-386), or
\* the path itself when it is a file (lines 363, 380): parts and content
candidates(path, recursive) ==
    IF path.is_file
    THEN {[parts |-> << path.name >>, content |-> path.content]}
    ELSE {[parts |-> << path.name >> \o e.parts, content |-> e.content] :
             e \in {f \in path.entries : recursive \/ Len(f.parts) = 1}}

file_name(f) == f.parts[Len(f.parts)]

\* lines 363-369: the candidates without a suffix
without_suffix(files) == {f \in files : suffix(file_name(f)) = <<>>}

\* lines 403-404: the candidates whose name is not ignored
not_ignored(files) == {f \in files : file_name(f) \notin ignore_filenames}

\* lines 405-411: json.load succeeds
loads(f) == f.content = "json"

\* lines 349-413: the list returned, and the files opened on the way
find_json_files(path, recursive, in_fast_mode) ==
    IF ~path.exists THEN [files |-> <<>>, opened |-> {}]
    ELSE IF in_fast_mode
    THEN [files |-> sorted({f.parts :
                              f \in without_suffix(candidates(path, recursive))}),
          opened |-> {}]
    ELSE LET tried == not_ignored(candidates(path, recursive)) IN
         [files |-> sorted({f.parts : f \in {t \in tried : loads(t)}}),
          opened |-> {f.parts : f \in tried}]

(***************************************************************************)
(* find_json_files on its own: on a path that does not exist, on a file,   *)
(* and on a directory "in" holding some of the files below, one of them in *)
(* a subdirectory.                                                         *)
(***************************************************************************)
N_in == <<"i", "n">>
N_c == <<"c">>
N_d == <<"d">>
N_u == <<"u">>
N_md == <<"n", ".", "m", "d">>
N_x_json == <<"x", ".", "j", "s", "o", "n">>

Entry(parts, content) == [parts |-> parts, content |-> content]

FileCatalogue ==
    {Entry(<< N_b >>, "json"),
     Entry(<< N_d, N_a >>, "json"),
     Entry(<< N_c >>, "text"),
     Entry(<< N_md >>, "json"),
     Entry(<< N_config >>, "json"),
     Entry(<< N_x_json >>, "json"),
     Entry(<< N_u >>, "denied")}

\* the most files under the directory
MaxEntries == 3

NoPath ==
    [exists |-> FALSE, is_file |-> FALSE, name |-> N_in, content |-> "",
     entries |-> {}]
FilePath(name, content) ==
    [NoPath EXCEPT !.exists = TRUE, !.is_file = TRUE, !.name = name,
                   !.content = content]
DirPath(entries) == [NoPath EXCEPT !.exists = TRUE, !.entries = entries]

ScanRoots ==
    {NoPath, FilePath(N_b, "json"), FilePath(N_md, "json"),
     FilePath(N_c, "text")}
    \cup {DirPath(es) : es \in {S \in SUBSET FileCatalogue :
                                   Cardinality(S) <= MaxEntries}}

InitFind ==
    /\ NoCall
    /\ fast_mode \in BOOLEAN
    /\ pc = "find"
    /\ config = MinimalConfig
    /\ lang_templates = MinimalLang
    /\ W = MissingDir
    /\ output_md_name = <<>>
    /\ given_title = <<>>
    /\ clean_titles = <<>>
    /\ parts_loop = NoPartsLoop
    /\ NoGrounding
    /\ NoWatch
    /\ NoGui
    /\ scan_root \in {Some(r) : r \in ScanRoots}
    /\ scan_recursive \in BOOLEAN
    /\ found_files = None

\* lines 349-413
FindJsonFiles ==
    /\ pc = "find"
    /\ found_files = None
    /\ found_files' =
          Some(find_json_files(scan_root[1], scan_recursive, fast_mode))
    /\ UNCHANGED <<call_vars, loop_vars, call, first_call, conversion_vars,
                   title_vars, part_vars, grounding_vars, scan_root,
                   scan_recursive, watcher, gui>>

NextFind == FindJsonFiles

SpecFind == InitFind /\ [][NextFind]_vars

(***************************************************************************)
(* Watch mode (cli.py): LogFileEventHandler.  Time is counted in halves of *)
(* a second.  The observer's thread hands the handler one event at a time; *)
(* an exception the handler does not catch ends that thread.  cli.py       *)
(* imports neither json nor datetime (lines 13-21), so evaluating          *)
(* json.load (line 70) or the except clause (line 72) raises NameError.    *)
(***************************************************************************)
\* line 86: 2 seconds
DEBOUNCE == 4
\* line 90: 0.5 seconds
PAUSE == 1

T_frontmatter_template ==
    <<"f", "r", "o", "n", "t", "m", "a", "t", "t", "e", "r", "_", "t", "e",
      "m", "p", "l", "a", "t", "e">>

\* lines 63-73: the value returned, or the exception raised
_is_valid_json(name, content) ==
    IF name = CONFIG_FILE_NAME \/ Contains(T_frontmatter_template, name)
    THEN "False"
    ELSE "NameError"

\* line 86: self.last_processed.get(json_path, 0)
last_processed_of(handler, event_path) ==
    IF event_path \in DOMAIN handler.last_processed
    THEN handler.last_processed[event_path] ELSE 0

\* one event handled: what the handler did, for the claims
Handled_event(src_path, at, ending, validated_at, converted, recorded) ==
    [src_path |-> src_path, at |-> at, ending |-> ending,
     validated_at |-> validated_at, converted |-> converted,
     recorded |-> recorded]

\* lines 76-97: _process_file(json_path) on the handler state w, where the
\* file has the given content and process_files takes `took` halves of a second
_process_file(w, event_path, content, took) ==
    LET now == w.now IN
    IF (now - last_processed_of(w, event_path)) < DEBOUNCE
    THEN [w EXCEPT !.handled =
             Append(@, Handled_event(event_path, now, "ignored", 0, FALSE, FALSE))]
    ELSE LET valid == _is_valid_json(event_path, content)
             woke == now + PAUSE
         IN IF valid = "NameError"
            THEN [w EXCEPT !.now = woke, !.alive = FALSE,
                           !.handled = Append(@, Handled_event(event_path, now,
                                           "raised", woke, FALSE, FALSE))]
            ELSE IF valid = "True"
            THEN [w EXCEPT !.now = woke + took,
                           !.calls = Append(@, event_path),
                           !.last_processed =
                               [q \in DOMAIN @ \cup {event_path} |->
                                  IF q = event_path THEN now ELSE @[q]],
                           !.handled = Append(@, Handled_event(event_path, now,
                                           "processed", woke, TRUE, TRUE))]
            ELSE [w EXCEPT !.now = woke,
                           !.handled = Append(@, Handled_event(event_path, now,
                                           "rejected", woke, FALSE, FALSE))]

\* the files of the watched directory: a log, a text that is no log, the
\* configuration file and a frontmatter template
WatchedNames == {N_b, N_c, N_config, N_template(<<"e", "n">>)}

WatchedFiles ==
    {f \in [WatchedNames -> {"json", "text", "denied"}] :
        f[N_config] = "text" /\ f[N_template(<<"e", "n">>)] = "text"}

\* the most events the handler is handed, and the last reading of the clock
MaxEvents == 3
MaxClock == 12

InitWatch ==
    /\ NoCall
    /\ fast_mode = FALSE
    /\ pc = "watch"
    /\ config = MinimalConfig
    /\ lang_templates = MinimalLang
    /\ W = MissingDir
    /\ output_md_name = <<>>
    /\ given_title = <<>>
    /\ clean_titles = <<>>
    /\ parts_loop = NoPartsLoop
    /\ NoGrounding
    /\ NoFind
    /\ NoGui
    /\ \E files \in WatchedFiles :
          watcher = Some([now |-> DEBOUNCE, last_processed |-> <<>>,
                          alive |-> TRUE, calls |-> <<>>, handled |-> <<>>,
                          files |-> files])

WatchBecomes(w) ==
    /\ watcher' = Some(w)
    /\ UNCHANGED <<call_vars, loop_vars, call, first_call, conversion_vars,
                   title_vars, part_vars, grounding_vars, find_vars, gui>>

\* lines 45-53: on_created and on_modified, for an event on a directory or
\* on one of the files
OnEvent ==
    /\ pc = "watch"
    /\ watcher[1].alive
    /\ Len(watcher[1].handled) < MaxEvents
    /\ \E src_path \in WatchedNames, is_directory \in BOOLEAN, took \in {0, 1} :
          WatchBecomes(
              IF is_directory THEN watcher[1]
              ELSE _process_file(watcher[1], src_path,
                                 watcher[1].files[src_path], took))

\* half a second passes between two events
Pass ==
    /\ pc = "watch"
    /\ watcher[1].now < MaxClock
    /\ WatchBecomes([watcher[1] EXCEPT !.now = @ + 1])

NextWatch == OnEvent \/ Pass

SpecWatch == InitWatch /\ [][NextWatch]_vars

(***************************************************************************)
(* src/gui.py: the start button, the worker threads it starts and the      *)
(* callbacks they schedule on the main loop.  The window's callbacks run   *)
(* on the main thread one at a time; a worker thread runs between them,    *)
(* one step at a time: its call of find_json_files, its call of            *)
(* process_files, its handler and its finally block.  A click reaches      *)
(* start_conversion only while the button's state is "normal".             *)
(***************************************************************************)
\* what start_conversion reads from the window: the source path (missing, a
\* file or a directory) and the check boxes
Settings ==
    [input_path : {"missing", "file", "dir"},
     watch_mode : BOOLEAN,
     gdrive_indicator : BOOLEAN]

\* how the call a worker is in ends: find_json_files finds nothing, a call
\* returns, a call raises
CallResults == {"nothing", "returns", "raises"}

\* the most threads started in one behaviour
MaxWorkers == 2

\* lines 45-55: a line printed is handed to the main loop as a call of
\* _insert_text
write(G, string) ==
    [G EXCEPT !.after = Append(@, [callback |-> "_insert_text", arg |-> string])]

\* start_conversion that leaves the button as it is
start_conversion_enabled(G, settings) ==
    [G EXCEPT !.log_textbox = <<>>,
              !.threads = Append(@, [at |-> "try",
                                     input_path |-> settings.input_path,
                                     watch_mode |-> settings.watch_mode])]

\* lines 146-177, but for the write to config: the button is disabled, the
\* log is cleared and the worker thread is started
start_conversion(G, settings) ==
    [G EXCEPT !.start_button = "disabled",
              !.log_textbox = <<>>,
              !.threads = Append(@, [at |-> "try",
                                     input_path |-> settings.input_path,
                                     watch_mode |-> settings.watch_mode])]

\* lines 116-144: the next step of worker thread n, the call it is in ending
\* with result
conversion_worker(G, n, result) ==
    LET thread == G.threads[n]
        goes(place) == [G EXCEPT !.threads[n].at = place]
    IN
    CASE thread.at = "try" ->
           IF thread.input_path = "missing"
           THEN write(goes("finally"), "The specified path does not exist")
           ELSE IF thread.watch_mode
           THEN write(goes("finally"),
                      IF thread.input_path = "file"
                      THEN "the source path must be a directory"
                      ELSE "Watch mode is best run from the command line.")
           ELSE goes("find_json_files")
      [] thread.at = "find_json_files" ->
           IF result = "raises" THEN goes("except")
           ELSE IF result = "nothing"
           THEN write(goes("finally"), "No valid JSON files found")
           ELSE goes("process_files")
      [] thread.at = "process_files" ->
           IF result = "raises" THEN goes("except") ELSE goes("finally")
      [] thread.at = "except" ->
           write(goes("finally"), "An unexpected error occurred")
      [] thread.at = "finally" ->
           LET printed == IF thread.watch_mode THEN goes("ended")
                          ELSE write(goes("ended"), "Done!")
           IN [printed EXCEPT
                 !.after = Append(@, [callback |-> "configure", arg |-> "normal"])]

\* the main loop runs the oldest callback scheduled with after: lines 69-74,
\* or the lambda of line 144
mainloop(G) ==
    LET scheduled == Head(G.after) IN
    IF scheduled.callback = "_insert_text"
    THEN [G EXCEPT !.after = Tail(@),
                   !.log_textbox = Append(@, scheduled.arg)]
    ELSE [G EXCEPT !.after = Tail(@), !.start_button = scheduled.arg]

\* the threads that have not run to their end
Running(G) == {n \in 1..Len(G.threads) : G.threads[n].at # "ended"}

InitGui ==
    /\ NoCall
    /\ fast_mode = FALSE
    /\ pc = "gui"
    /\ config = MinimalConfig
    /\ lang_templates = MinimalLang
    /\ W = MissingDir
    /\ output_md_name = <<>>
    /\ given_title = <<>>
    /\ clean_titles = <<>>
    /\ parts_loop = NoPartsLoop
    /\ NoGrounding
    /\ NoFind
    /\ NoWatch
    /\ gui = Some([start_button |-> "normal", threads |-> <<>>,
                   after |-> <<>>, log_textbox |-> <<>>])

gui_unchanged ==
    UNCHANGED <<files_to_process, overwrite, fast_mode, lang_templates,
                frontmatter_template, loop_vars, call, first_call,
                conversion_vars, title_vars, part_vars, grounding_vars,
                find_vars, watcher>>

\* a click on the start button: line 253, command=start_conversion, and
\* line 168, the write to the shared config
Click ==
    /\ pc = "gui"
    /\ \E settings \in Settings :
          IF gui[1].start_button = "normal"
          THEN /\ Len(gui[1].threads) < MaxWorkers
               /\ gui' = Some(start_conversion(gui[1], settings))
               /\ config' = [config EXCEPT !.enable_gdrive_indicator =
                                               settings.gdrive_indicator]
          ELSE UNCHANGED <<gui, config>>
    /\ gui_unchanged

\* a worker thread takes its next step
WorkerStep ==
    /\ pc = "gui"
    /\ \E n \in Running(gui[1]), result \in CallResults :
          gui' = Some(conversion_worker(gui[1], n, result))
    /\ UNCHANGED config
    /\ gui_unchanged

\* the main loop takes up a scheduled callback
MainLoop ==
    /\ pc = "gui"
    /\ gui[1].after # <<>>
    /\ gui' = Some(mainloop(gui[1]))
    /\ UNCHANGED config
    /\ gui_unchanged

NextGui == Click \/ WorkerStep \/ MainLoop

SpecGui == InitGui /\ [][NextGui]_vars

\* every thread that can take a step takes it in the end, and the main loop
\* keeps taking up what is scheduled
SpecGuiFair == SpecGui /\ WF_vars(WorkerStep) /\ WF_vars(MainLoop)

(***************************************************************************)
(* What the specification says of the program, claim by claim.             *)
(***************************************************************************)
Handled == 1..Len(outcome)
ContentOf(i) == files_to_process[i].content
IsDocument(i) == ContentOf(i).kind = "json" /\ ContentOf(i).val.t \in {"obj", "emptyobj"}
DocOf(i) == ContentOf(i).val.doc

\* C1: whatever the files, the configuration and the lookup table, no
\* exception propagates out of process_files: the call never ends by raising.
C1_NoExceptionPropagates == pc # "raised"

\* chunks f..l of cs are a maximal run of consecutive chunks of role model
IsModelRun(cs, f, l) ==
    /\ 1 <= f /\ f <= l /\ l <= Len(cs)
    /\ \A m \in f..l : cs[m].role = Some(L_model)
    /\ (f = 1 \/ cs[f - 1].role # Some(L_model))
    /\ (l = Len(cs) \/ cs[l + 1].role # Some(L_model))

ModelRuns(cs) ==
    {r \in (1..Len(cs)) \X (1..Len(cs)) : IsModelRun(cs, r[1], r[2])}

\* the chunk is marked isThought and its trimmed text is not empty
HasThoughtBlock(c) ==
    c.isThought /\ c.text.k = "str" /\ strip(c.text.v) # <<>>

IsOrdinaryText(c) == ~c.isThought /\ c.text.k = "str"

\* the chunk carries nothing but role, isThought and text
IsTextOnly(c) ==
    c = [EmptyChunk EXCEPT !.role = c.role, !.isThought = c.isThought,
                           !.text = c.text]

\* the thought blocks of a run, in the order of its thought chunks
ThoughtBlocks(run) ==
    LET th == SelectSeq(run, HasThoughtBlock) IN
    [n \in 1..Len(th) |->
        format(lang_templates.thought_block_template[1],
               "{thought_text}"
                   :> replace(strip(th[n].text.v), "\n", L_QuoteCont)).v]

\* the trimmed texts of the ordinary chunks of a run, in their order
OrdinaryTexts(run) ==
    LET o == SelectSeq(run, IsOrdinaryText) IN
    [n \in 1..Len(o) |-> strip(o[n].text.v)]

\* the document the step-by-step conversion works on, and its source
ScannedSource == conversation_source(DocOf(1))

\* the turns rendered so far that hold a chunk of f..l
TurnsWithin(f, l) ==
    {n \in 1..Len(B.emitted) :
        B.emitted[n].first <= l /\ B.emitted[n].last >= f}

MessageOf(i) ==
    messages[Cardinality({j \in 1..i : outcome[j] = "failed"})]

\* the document has neither a system instruction nor a conversation source
LacksContent(doc) ==
    /\ doc.systemInstruction.k # "obj"
    /\ doc.chunks = <<>>
    /\ doc.pendingInputs = <<>>
    /\ doc.history = <<>>

\* the first non-empty of the chunk list, the pending inputs and the history
FirstNonEmpty(doc) ==
    IF doc.chunks # <<>> THEN doc.chunks
    ELSE IF doc.pendingInputs # <<>> THEN doc.pendingInputs
    ELSE doc.history

CarriesDriveField(obj) ==
    obj.driveImage # None \/ obj.driveDocument # None \/ obj.driveVideo # None

\* some chunk of cs, or some entry of its parts, carries a Drive attachment
CarriesDrive(cs) ==
    \E n \in 1..Len(cs) :
        \/ CarriesDriveField(cs[n])
        \/ \E m \in 1..Len(cs[n].parts) : CarriesDriveField(cs[n].parts[m])

\* the step that handles a document without content, unless it skips it
C3_Step ==
    (/\ pc = "loop"
     /\ index <= Len(files_to_process)
     /\ IsDocument(index)
     /\ LacksContent(DocOf(index))
     /\ Len(outcome') = index
     /\ outcome'[index] # "skipped")
    => /\ outcome'[index] = "failed"
       /\ messages'[Len(messages')].msg = MSG_STRUCTURE
       /\ W'.docs = W.docs
       /\ W'.assets = W.assets

\* C3: a document with no system instruction and no conversation source,
\* the empty object included, is counted as failed with the Invalid
\* Structure reason whenever it is not skipped, and its step writes no
\* document and no asset file.
C3_InvalidStructure == [][C3_Step]_vars

\* C5: a document with a non-empty chunk list, pending-inputs list or
\* history list is never rejected as Invalid Structure, and the turns
\* rendered for it come from the first non-empty of the three, in that order.
C5_PendingInputsAreASource ==
    /\ \A i \in Handled :
          (IsDocument(i) /\ FirstNonEmpty(DocOf(i)) # <<>>)
          => ~(outcome[i] = "failed" /\ MessageOf(i).msg = MSG_STRUCTURE)
    /\ pc = "turns"
       => \A n \in 1..Len(B.emitted) :
             /\ B.emitted[n].last <= Len(FirstNonEmpty(DocOf(index)))
             /\ \A m \in B.emitted[n].first..B.emitted[n].last :
                   FirstNonEmpty(DocOf(index))[m].role = Some(B.emitted[n].role)

\* the destination name C7 describes for file i
NameWithIndicator(i) ==
    (IF files_to_process[i].mtime = None THEN L_NoDate
     ELSE strftime_date(files_to_process[i].mtime[1]))
    \o L_SpDashSp
    \o (IF /\ config.enable_gdrive_indicator
           /\ ~fast_mode
           /\ CarriesDrive(FirstNonEmpty(DocOf(i)))
        THEN config.gdrive_filename_indicator[1] ELSE <<>>)
    \o base_filename_of(files_to_process[i].name) \o L_DotMd

\* C7: the document of every converted file is named date, space-hyphen-
\* space, the indicator token exactly when the indicator is enabled, fast
\* mode is off and the document carries a Drive attachment, the base name
\* and .md.
C7_IndicatorInName ==
    \A i \in Handled :
        outcome[i] = "success"
        => \E d \in W.docs : d.name = NameWithIndicator(i)

\* C8: when the scan runs, it tells whether some chunk of the document's
\* conversation source, or some entry of a chunk's parts, carries a
\* driveImage, driveDocument or driveVideo field.
C8_ScanFindsDrive ==
    (pc = "convert" /\ config.enable_gdrive_indicator /\ ~fast_mode)
    => (has_gdrive_link <=> CarriesDrive(FirstNonEmpty(DocOf(index))))

\* the destination name process_files computes for file i
DestinationOf(i) ==
    new_md_filename_of(
        config,
        IF files_to_process[i].mtime = None THEN L_NoDate
        ELSE strftime_date(files_to_process[i].mtime[1]),
        base_filename_of(files_to_process[i].name),
        IF /\ config.enable_gdrive_indicator
           /\ ~fast_mode
           /\ _check_for_gdrive_links(DocOf(i))
        THEN get(config, "gdrive_filename_indicator", <<>>) ELSE <<>>).v

\* the files of the given name among docs (none or one)
Named(docs, name) == {d \in docs : d.name = name}

\* the step that handles a file whose destination exists, overwrite being off
C4_Step ==
    (/\ pc = "loop"
     /\ index <= Len(files_to_process)
     /\ ~overwrite
     /\ ContentOf(index).kind = "json"
     /\ ContentOf(index).val.t = "obj"
     /\ Named(W.docs, DestinationOf(index)) # {})
    => /\ outcome' = Append(outcome, "skipped")
       /\ skipped_count' = skipped_count + 1
       /\ success_count' = success_count
       /\ error_count' = error_count
       /\ messages' = messages
       /\ W' = W

\* the second call, overwrite being off, against the first
C4_SecondRun ==
    (call = 2 /\ ~overwrite)
    => \A i \in Handled :
          first_call.outcome[i] \in {"success", "skipped"}
          => /\ outcome[i] = "skipped"
             /\ Named(W.docs, DestinationOf(i))
                    = Named(first_call.docs, DestinationOf(i))

C6_Step ==
    /\ (/\ pc = "loop"
        /\ index <= Len(files_to_process)
        /\ ContentOf(index).kind \in {"unreadable", "badjson"})
       => /\ error_count' = error_count + 1
          /\ success_count' = success_count
          /\ skipped_count' = skipped_count
          /\ outcome' = Append(outcome, "failed")
          /\ W' = W
          /\ pc' = "loop"
          /\ index' = index + 1
    /\ outcome' # outcome
       => /\ Len(outcome) = index - 1
          /\ Len(outcome') = index
          /\ index' = index + 1

\* C6: a file that cannot be read or is not JSON adds one to the failed
\* counter and to no other, leaves the output directory as it was, and the
\* loop goes on with the next file; every step that handles a file handles
\* the one at the loop's index and moves the index by one, so the files are
\* handled in list order and all of them by the time the call returns.
C6_UnreadableOnlyFails ==
    /\ [][C6_Step]_vars
    /\ [](pc = "returned" => Len(outcome) = Len(files_to_process))

\* C6's case: an unreadable or non-JSON file was counted as failed and the
\* file after it was converted
C6_Witness ==
    /\ Len(outcome) = 2
    /\ ContentOf(1).kind \in {"unreadable", "badjson"}
    /\ outcome = << "failed", "success" >>

\* the embedded payloads of a conversation source, in order: the one on each
\* chunk, then those of its parts
RECURSIVE InlinePayloads(_)
InlinePayloads(cs) ==
    IF cs = <<>> THEN <<>>
    ELSE (IF has_inline(Head(cs)) THEN Head(cs).inlineData ELSE <<>>)
         \o Flatten([n \in 1..Len(Head(cs).parts) |->
                        IF has_inline(Head(cs).parts[n])
                        THEN Head(cs).parts[n].inlineData ELSE <<>>])
         \o InlinePayloads(Tail(cs))

\* base64.b64encode(bytes)
RECURSIVE b64encode(_)
b64encode(bytes) ==
    IF bytes = <<>> THEN <<>>
    ELSE IF Len(bytes) = 1
    THEN << B64Alphabet[(bytes[1] \div 4) + 1],
            B64Alphabet[(bytes[1] % 4) * 16 + 1], "=", "=" >>
    ELSE IF Len(bytes) = 2
    THEN << B64Alphabet[(bytes[1] \div 4) + 1],
            B64Alphabet[(bytes[1] % 4) * 16 + (bytes[2] \div 16) + 1],
            B64Alphabet[(bytes[2] % 16) * 4 + 1], "=" >>
    ELSE << B64Alphabet[(bytes[1] \div 4) + 1],
            B64Alphabet[(bytes[1] % 4) * 16 + (bytes[2] \div 16) + 1],
            B64Alphabet[(bytes[2] % 16) * 4 + (bytes[3] \div 64) + 1],
            B64Alphabet[(bytes[3] % 64) + 1] >>
         \o b64encode(SubSeq(bytes, 4, Len(bytes)))

\* the document holds an error fragment of save_image_from_base64
HasSaveError(content) == Contains(L_ErrOpen, content)

\* the content of the document of the given name
ContentAt(docs, name) == (CHOOSE d \in docs : d.name = name).content

\* C9: once a document is converted without an image error, every embedded
\* payload that decodes has its own file under assets: as many asset files
\* as payloads, each with the MIME subtype as extension and the decoded
\* bytes as content, which encode back to the payload, and each linked from
\* the document as ![[filename]].
C9_EveryPayloadSaved ==
    (/\ Len(outcome) = 1
     /\ outcome[1] = "success"
     /\ ~HasSaveError(ContentAt(W.docs, DestinationOf(1))))
    => LET ps == InlinePayloads(ScannedSource) IN
       /\ Cardinality(W.assets) = Len(ps)
       /\ \A n \in 1..Len(ps) :
             \E f \in W.assets :
                /\ f.bytes = b64decode(ps[n].data).bytes
                /\ b64encode(f.bytes) = ps[n].data
                /\ endswith(f.name, L_Dot \o last_segment(ps[n].mimeType, "/"))
                /\ Contains(L_EmbedOpen \o f.name \o L_EmbedClose,
                            ContentAt(W.docs, DestinationOf(1)))

\* s without the digits that follow each "_img_": the uniqueness token of
\* an asset filename
InToken(s, i) ==
    /\ IsDigit(s[i])
    /\ \E p \in 5..(i - 1) :
          /\ SubSeq(s, p - 4, p) = L_Img
          /\ \A q \in (p + 1)..i : IsDigit(s[q])
\* the characters lo..hi of s that are outside tokens
RECURSIVE mask_between(_, _, _)
mask_between(s, lo, hi) ==
    IF lo > hi THEN <<>>
    ELSE IF lo = hi THEN (IF InToken(s, lo) THEN <<>> ELSE << s[lo] >>)
    ELSE mask_between(s, lo, (lo + hi) \div 2)
         \o mask_between(s, ((lo + hi) \div 2) + 1, hi)
Mask(s) == mask_between(s, 1, Len(s))

\* C10: when the second call runs with overwrite true and the arguments of
\* the first, the document of a file both calls converted, neither with an
\* image error, is after the second call what it was after the first, the
\* uniqueness tokens of asset filenames apart.
C10_SameDocumentAgain ==
    (call = 2 /\ overwrite /\ pc = "returned")
    => \A i \in Handled :
          (/\ first_call.outcome[i] = "success"
           /\ outcome[i] = "success"
           /\ \A j \in Handled \ {i} : DestinationOf(j) # DestinationOf(i)
           /\ ~HasSaveError(ContentAt(first_call.docs, DestinationOf(i)))
           /\ ~HasSaveError(ContentAt(W.docs, DestinationOf(i))))
          => Mask(ContentAt(W.docs, DestinationOf(i)))
                 = Mask(ContentAt(first_call.docs, DestinationOf(i)))

\* C11: get_clean_title returns exactly X for every title of the form
\* YYYY-MM-DD - X (four, two and two digits, then space-hyphen-space), and
\* returns every other string unchanged, one that ends right after the
\* hyphen included.
OfDateForm(s) ==
    /\ Len(s) >= 13
    /\ \A i \in {1, 2, 3, 4, 6, 7, 9, 10} : is_decimal(s[i])
    /\ SubSeq(s, 5, 5) \o SubSeq(s, 8, 8) = <<"-", "-">>
    /\ SubSeq(s, 11, 13) = L_SpDashSp
AfterDate(s) == SubSeq(s, 14, Len(s))

C11_CleanTitle ==
    clean_titles # <<>>
        => clean_titles[1] = IF OfDateForm(given_title)
                             THEN AfterDate(given_title)
                             ELSE given_title

\* C12: get_clean_title is idempotent: applied to its own result it returns
\* that result.
C12_Idempotent ==
    Len(clean_titles) >= 2 => clean_titles[2] = clean_titles[1]

\* C12 as the function has it: a second application changes the result
\* exactly when the first result itself begins with a date prefix, which
\* the second application then removes.
C12_SecondStripsSecondDate ==
    Len(clean_titles) >= 2
        => /\ clean_titles[2] = clean_titles[1] <=> ~OfDateForm(clean_titles[1])
           /\ OfDateForm(clean_titles[1])
                 => /\ OfDateForm(given_title)
                    /\ \E n \in 0..Len(clean_titles[1]) :
                          /\ n >= 13
                          /\ clean_titles[2]
                               = SubSeq(clean_titles[1], 14, n)

C12_Witness ==
    /\ Len(clean_titles) = 2
    /\ OfDateForm(given_title)
    /\ OfDateForm(clean_titles[1])
    /\ clean_titles[2] = T_Log

\* the keys the lookup table lacks
MissingKeys(lang) == {key \in DOMAIN lang : lang[key] = None}

\* C13: whatever keys the lookup table lacks, conversion puts a built-in
\* default in the place of each missing string and never raises because of
\* the missing key: the scan raises no KeyError when the thought-block
\* template is missing, and a turn whose role header is missing starts with
\* "## " and the capitalized role.
C13_MissingKeysFallBack ==
    /\ "thought_block_template" \in MissingKeys(lang_templates)
          => B.W.exc # "KeyError"
    /\ \A t \in 1..Len(B.emitted) :
          (B.emitted[t].role = L_model
             /\ "model_header" \in MissingKeys(lang_templates))
          => startswith(B.conversation_turns[t],
                        L_H2 \o capitalize(L_model) \o L_NL2)

\* the payloads of ps that b64decode rejects
Undecodable(ps) == {n \in 1..Len(ps) : b64decode(ps[n].data).exc # ""}

\* C14: when an embedded attachment of the document fails to decode, no
\* exception is raised and the batch goes on: the file is counted as
\* succeeded, its document is written with an error fragment in the place
\* of the attachment, and no asset file is written for that payload.
C14_FailedAttachmentIsInline ==
    LET ps == InlinePayloads(ScannedSource) IN
    Undecodable(ps) # {}
        => /\ pc # "raised"
           /\ Len(outcome) >= 1
                 => /\ outcome[1] = "success"
                    /\ HasSaveError(ContentAt(W.docs, DestinationOf(1)))
                    /\ Len(W.saved) <= Len(ps) - Cardinality(Undecodable(ps))

\* C15: within one run every asset file that is written gets a name that no
\* asset file written earlier in the run has, so no write replaces another
\* attachment's file.
C15_DistinctAssetNames ==
    \A m, n \in 1..Len(W.saved) : m # n => W.saved[m] # W.saved[n]

\* the reasons of the taxonomy: Malformed Input (the file cannot be read,
\* or is not JSON), Invalid Structure, Write Failure
MalformedInput == {MSG_READ, MSG_JSON}
Taxonomy == MalformedInput \cup {MSG_STRUCTURE, MSG_WRITE}

\* C16: every file counted as failed carries a non-empty reason of the
\* taxonomy; a file that is valid JSON without a system instruction and
\* without a conversation source, the empty object included, carries the
\* Invalid Structure reason, and an unreadable or non-JSON file a Malformed
\* Input reason.
C16_FailureHasReason ==
    \A i \in Handled :
       outcome[i] = "failed"
       => /\ MessageOf(i).msg # ""
          /\ MessageOf(i).msg \in Taxonomy
          /\ (IsDocument(i) /\ LacksContent(DocOf(i)))
                => MessageOf(i).msg = MSG_STRUCTURE
          /\ ContentOf(i).kind \in {"unreadable", "badjson"}
                => MessageOf(i).msg \in MalformedInput

\* one iteration of the scan that went through: from index B.i to B'.i
C17_Step ==
    (pc = "turns" /\ B'.i # B.i)
    => LET cs == ScannedSource
           i == B.i
           j == B'.i
       IN IF cs[i].role = None
          THEN /\ j = i + 1
               /\ B'.emitted = B.emitted
               /\ B'.conversation_turns = B.conversation_turns
               /\ B'.W.exc = ""
               /\ pc' = "turns"
          ELSE /\ j > i
               /\ \A m \in i..(j - 1) : cs[m].role = cs[i].role
               /\ j <= Len(cs) => cs[j].role # cs[i].role
               /\ \/ B'.emitted = B.emitted
                  \/ /\ Len(B'.emitted) = Len(B.emitted) + 1
                     /\ SubSeq(B'.emitted, 1, Len(B.emitted)) = B.emitted
                     /\ B'.emitted[Len(B'.emitted)].first = i
                     /\ B'.emitted[Len(B'.emitted)].last = j - 1
                     /\ B'.emitted[Len(B'.emitted)].role = cs[i].role[1]

\* the turns emitted so far lie in chunk order, on disjoint runs of chunks
\* that have a role
C17_InOrder ==
    /\ \A n \in 1..Len(B.emitted) :
          /\ B.emitted[n].first <= B.emitted[n].last
          /\ B.emitted[n].last < B.i
          /\ \A m \in B.emitted[n].first..B.emitted[n].last :
                ScannedSource[m].role # None
    /\ \A n \in 1..(Len(B.emitted) - 1) :
          B.emitted[n].last < B.emitted[n + 1].first
    /\ Len(B.conversation_turns) = Len(B.emitted)

\* the scan ends: no iteration leaves the index where it was, and the step
\* after which the scan is over finds every chunk consumed
C17_Ends ==
    pc = "turns"
    => /\ B'.i >= B.i
       /\ pc' = "turns" => B'.i > B.i
       /\ pc' # "turns" => B.i > Len(ScannedSource)

\* C17: for every chunk list the scan terminates with all chunks consumed
\* (each iteration moves the index forward, and the scan is left only with
\* the index past the last chunk), and it partitions the chunks that have a
\* role into maximal runs of one role: every iteration consumes either one
\* chunk without a role, emitting no turn and raising no error, or one
\* maximal run, and the turns are emitted in chunk order.
C17_ScanConsumesAllInRuns ==
    /\ [][C17_Step]_vars
    /\ []C17_InOrder
    /\ [][C17_Ends]_vars

\* the partition alone, for the scans that run through
C17_RunsWhileScanning == [][C17_Step]_vars /\ []C17_InOrder

\* C18: a turn whose fragments are all absent or empty is left out of the
\* output: every turn block emitted is its role header, a blank line and at
\* least one non-empty fragment, so no header stands alone.
C18_NoEmptyTurn ==
    \A t \in 1..Len(B.emitted) :
       /\ \E n \in 1..Len(B.emitted[t].turn_content) :
             B.emitted[t].turn_content[n] # <<>>
       /\ B.conversation_turns[t]
             # role_header(lang_templates, B.emitted[t].role) \o L_NL2

\* the index of the first chunk that has a role, 0 when there is none
FirstWithRole(cs) ==
    LET with == {n \in 1..Len(cs) : cs[n].role # None} IN
    IF with = {} THEN 0 ELSE SetMin(with)

\* the trimmed system instruction of the document
TrimmedInstruction ==
    IF DocOf(1).systemInstruction.k = "obj"
       /\ DocOf(1).systemInstruction.text.k = "str"
    THEN strip(DocOf(1).systemInstruction.text.v) ELSE <<>>

\* the block of the instruction under the built-in header and template, its
\* line breaks followed by the quote mark
InstructionBlock ==
    L_NoteOpen \o L_SysHeaderDefault \o <<"\n", ">", " ">>
        \o Flatten([n \in 1..Len(TrimmedInstruction) |->
                      IF TrimmedInstruction[n] = "\n" THEN <<"\n", ">", " ">>
                      ELSE << TrimmedInstruction[n] >>])

\* C19: the system-instruction block is the first fragment of the turn of
\* the first run of chunks that have a role, also when chunks without a role
\* come before it, exactly when that turn's role is "user" and the trimmed
\* instruction is not empty; no later turn holds it; the line breaks of the
\* instruction are followed by the quote mark.
C19_InstructionLeadsFirstTurn ==
    \A t \in 1..Len(B.emitted) :
       LET turn == B.emitted[t] IN
       /\ (/\ turn.first = FirstWithRole(ScannedSource)
           /\ turn.role = L_user
           /\ TrimmedInstruction # <<>>)
          <=> turn.turn_content[1] = InstructionBlock
       /\ \A n \in 2..Len(turn.turn_content) :
             turn.turn_content[n] # InstructionBlock

\* one entry of the parts array has been handled without an exception
C20_Step ==
    (pc = "parts" /\ parts_loop'.n = parts_loop.n + 1
                 /\ parts_loop'.T.W.exc = "")
    => LET held == parts_loop.T.turn_content
           part == parts_loop.parts[parts_loop.n]
           fragments == parts_loop'.part_content
           present == \E n \in 1..Len(held) :
                          Contains(Flatten(fragments), held[n])
       IN /\ parts_loop'.T.turn_content =
                 IF present THEN held ELSE held \o fragments
          /\ parts_loop'.T.pending_thoughts = parts_loop.T.pending_thoughts
          /\ part.text.k = "str"
                => fragments # <<>> /\ fragments[1] = strip(part.text.v)
          /\ part = EmptyPart => fragments = <<>>

\* C20: the fragments of an entry of the parts array are appended to the
\* turn, at its end and in their order, if and only if their concatenation
\* is not a substring of a fragment the turn's content list holds at that
\* moment (the system instruction block and the fragments of earlier chunks
\* and parts among them); the pending thought blocks are not consulted, and
\* a dropped entry leaves the content list as it was.
C20_PartsJoinUnlessPresent == [][C20_Step]_vars

\* C20's cases: an entry whose text lies inside the chunk's own text has
\* been dropped; an entry whose text lies inside a pending thought block
\* only has been kept
C20_Witness ==
    /\ pc = "parts"
    /\ parts_loop.n = 3
    /\ \/ /\ parts_loop.T.turn_content = << T_answer, T_hi >>
          /\ parts_loop.parts[1].text = Text(T_final)
          /\ parts_loop.parts[2].text = Text(T_hi_sp)
       \/ /\ parts_loop.T.pending_thoughts # <<>>
          /\ Contains(T_hi, parts_loop.T.pending_thoughts[1])
          /\ parts_loop.T.turn_content = << T_hi >>
          /\ parts_loop.parts[1].text = Text(T_hi_sp)
          /\ parts_loop.parts[2].text = Text(T_hi_sp)

\* how many of the fields that yield a fragment an object carries: a text,
\* an embedded image, each Drive attachment kind, a video reference
FieldCount(present) == IF present THEN 1 ELSE 0

FieldsPresent(obj) ==
    FieldCount(obj.text.k = "str")
    + FieldCount(has_inline(obj))
    + FieldCount(drive_link(obj, "driveImage") # <<>>)
    + FieldCount(drive_link(obj, "driveDocument") # <<>>)
    + FieldCount(drive_link(obj, "driveVideo") # <<>>)
    + FieldCount(youtube_link(obj) # <<>>)

\* one entry of the parts array has been handled without an exception
C21_Step ==
    (pc = "parts" /\ parts_loop'.n = parts_loop.n + 1
                 /\ parts_loop'.T.W.exc = "")
    => Len(parts_loop'.part_content)
          = FieldsPresent(parts_loop.parts[parts_loop.n])

\* C21: an entry of a chunk's parts array yields one fragment for each of
\* the fields it carries (text, embedded image, Drive image, Drive document,
\* Drive video, external video reference), each extracted independently of
\* the others, as for a chunk.
C21_OneFragmentPerField == [][C21_Step]_vars

\* chunks f..l of cs are a maximal run of consecutive chunks of one role
IsRun(cs, f, l) ==
    /\ 1 <= f /\ f <= l /\ l <= Len(cs)
    /\ has_role(cs[f])
    /\ \A m \in f..l : cs[m].role = cs[f].role
    /\ (f = 1 \/ cs[f - 1].role # cs[f].role)
    /\ (l = Len(cs) \/ cs[l + 1].role # cs[f].role)

Runs(cs) == {r \in (1..Len(cs)) \X (1..Len(cs)) : IsRun(cs, r[1], r[2])}

\* the grounding member of the last chunk of the run that carries one
LastGrounding(run) ==
    LET carrying == {m \in 1..Len(run) : run[m].grounding # None} IN
    IF carrying = {} THEN None ELSE run[SetMax(carrying)].grounding

\* grounding data was captured: the last grounding object is not empty
Captured(run) == LastGrounding(run) # None /\ ~LastGrounding(run)[1].falsy

IsGroundingBlock(fragment) == startswith(fragment, L_InfoOpen)

\* the fragment lists of the turns rendered for the run that starts at f
FragmentsOfRun(f) ==
    {B.emitted[n].turn_content :
        n \in {m \in 1..Len(B.emitted) : B.emitted[m].first = f}}

\* C22: the grounding data of a turn is that of the last chunk of its run
\* that carries a grounding object; when grounding data was captured and
\* enable_grounding_metadata is set, the formatted grounding block is the
\* last fragment of the turn and no fragment before it is a grounding block;
\* when the option is not set, no turn holds a grounding block.
C22_GroundingEndsTheTurn ==
    \A r \in Runs(ScannedSource) :
       (r[2] < B.i /\ B.W.exc = "")
       => LET run == SubSeq(ScannedSource, r[1], r[2]) IN
          IF Captured(run) /\ config.enable_grounding_metadata
          THEN /\ FragmentsOfRun(r[1]) # {}
               /\ \A tc \in FragmentsOfRun(r[1]) :
                     /\ tc[Len(tc)] = format_grounding_data(
                                          LastGrounding(run)[1], lang_templates)
                     /\ \A k \in 1..(Len(tc) - 1) : ~IsGroundingBlock(tc[k])
          ELSE \A tc \in FragmentsOfRun(r[1]) :
                  \A k \in 1..Len(tc) : ~IsGroundingBlock(tc[k])

\* the lines of a string: the positions of its line breaks, and line k
Breaks(s) == {i \in 1..Len(s) : s[i] = "\n"}
NumLines(s) == Cardinality(Breaks(s)) + 1
LineOf(s, k) ==
    LET starts == {0} \cup Breaks(s)
        b == CHOOSE x \in starts : Cardinality({y \in starts : y < x}) = k - 1
        e == SetMin({y \in Breaks(s) \cup {Len(s) + 1} : y > b})
    IN SubSeq(s, b + 1, e - 1)

\* the source has a human title; the URI has a hostname
HasTitle(source) == source.title # None /\ source.title[1] # <<>>
HasHost(source) == source.uri # None /\ hostname(source.uri[1]) # None

\* the text the entry of a source links: "[text]("
LinkText(t) == L_LBracket \o t \o L_LinkMid

\* the labels in force
LabelsInForce == get(lang_templates, "grounding_metadata", NoGroundingLabels)
QueriesLine == L_GtSp \o get(LabelsInForce, "queries_header", L_QueriesHeaderDefault)
SourcesLine == L_GtSp \o get(LabelsInForce, "sources_header", L_SourcesHeaderDefault)

\* C23: in the grounding block every source entry shows the source's title
\* whenever the source has one, and the hostname of its URI when it has no
\* title; the queries section and the sources section are each left out
\* when their list is empty, and the blank quoted separator line appears
\* exactly when both sections are present.
C23_TitleBeforeHostname ==
    (pc = "grounding" /\ grounding_block # None)
    => LET block == grounding_block[1]
           queries == given_grounding.webSearchQueries
           sources == given_grounding.groundingSources
           n == NumLines(block)
           lines == [k \in 1..n |-> LineOf(block, k)]
       IN /\ n = 1 + (IF queries # <<>> THEN 1 + Len(queries) ELSE 0)
                   + (IF sources # <<>> THEN 1 + Len(sources) ELSE 0)
                   + (IF queries # <<>> /\ sources # <<>> THEN 1 ELSE 0)
          /\ (\E k \in 1..n : lines[k] = QueriesLine) <=> queries # <<>>
          /\ (\E k \in 1..n : lines[k] = SourcesLine) <=> sources # <<>>
          /\ (\E k \in 1..n : lines[k] = L_Gt)
                <=> (queries # <<>> /\ sources # <<>>)
          /\ \A m \in 1..Len(sources) :
                LET entry == lines[n - Len(sources) + m] IN
                /\ HasTitle(sources[m])
                      => Contains(LinkText(sources[m].title[1]), entry)
                /\ (~HasTitle(sources[m]) /\ HasHost(sources[m]))
                      => Contains(LinkText(hostname(sources[m].uri[1])[1]),
                                  entry)

\* the extensions of the known non-log set
NonLogExtensions ==
    {<<".", "p", "y">>, <<".", "e", "x", "e">>, <<".", "y", "a", "m", "l">>,
     <<".", "t", "x", "t">>, <<".", "m", "d">>, <<".", "s", "p", "e", "c">>,
     <<".", "z", "i", "p">>}

\* the files under the root the call looks at
UnderRoot ==
    IF scan_root[1].exists THEN candidates(scan_root[1], scan_recursive)
    ELSE {}

Extensionless(f) == \A i \in 1..Len(file_name(f)) : file_name(f)[i] # "."

\* what the call is to return: in fast mode the files without an extension,
\* in exhaustive mode the files that parse and are neither of a non-log
\* extension nor named like a configuration file
ExpectedFiles ==
    IF fast_mode THEN {f.parts : f \in {g \in UnderRoot : Extensionless(g)}}
    ELSE {f.parts :
            f \in {g \in UnderRoot :
                     /\ g.content = "json"
                     /\ lower_str(suffix(file_name(g))) \notin NonLogExtensions
                     /\ file_name(g) \notin ignore_filenames}}

\* C24: file discovery returns, in sorted order and without duplicates, in
\* fast mode exactly the extensionless files under the root (those of
\* subdirectories only when recursive) and opens none of them; in exhaustive
\* mode exactly the files that open and parse as JSON, without the files of
\* a known non-log extension and the files named like the program's own
\* configuration files; and the empty list for a root that does not exist.
C24_DiscoveryByMode ==
    (pc = "find" /\ found_files # None)
    => LET files == found_files[1].files IN
       /\ {files[n] : n \in 1..Len(files)} = ExpectedFiles
       /\ \A m, n \in 1..Len(files) : m < n => path_less(files[m], files[n])
       /\ fast_mode => found_files[1].opened = {}
       /\ ~scan_root[1].exists => files = <<>>

\* the events the handler has been handed, in order
EventsHandled == IF pc = "watch" THEN watcher[1].handled ELSE <<>>

\* event n falls into the window of an earlier processing of its path
InWindow(n) ==
    \E m \in 1..(n - 1) :
       /\ EventsHandled[m].ending = "processed"
       /\ EventsHandled[m].src_path = EventsHandled[n].src_path
       /\ EventsHandled[n].at - EventsHandled[m].at < DEBOUNCE

Tally == success_count + skipped_count + error_count

\* the loop of process_files takes up the next file of the list
TakesFile == pc = "loop" /\ index <= Len(files_to_process)

\* exactly one of the three counters grows by one, the others stay
OneCounterMoves ==
    \/ /\ success_count' = success_count + 1
       /\ skipped_count' = skipped_count /\ error_count' = error_count
    \/ /\ skipped_count' = skipped_count + 1
       /\ success_count' = success_count /\ error_count' = error_count
    \/ /\ error_count' = error_count + 1
       /\ success_count' = success_count /\ skipped_count' = skipped_count

C26_Step ==
    /\ TakesFile => OneCounterMoves
    /\ success_count' >= success_count
    /\ skipped_count' >= skipped_count
    /\ error_count' >= error_count

C26_Sum ==
    pc \in {"loop", "returned", "raised"}
    => /\ Tally = index - 1
       /\ pc = "returned" => Tally = Len(files_to_process)

\* C26: at every point of the loop of process_files the three counters sum
\* to the number of files handled so far; every file the loop takes up moves
\* exactly one of them by one, no counter ever decreases, and the tally
\* returned sums to the length of the list (0, 0, 0 for the empty list).
C26_TallyCountsEveryFile == [][C26_Step]_vars /\ []C26_Sum

\* the same for the files that are handled without an exception
C26_TallyWhileNothingRaises ==
    [][pc' # "raised" => C26_Step]_vars /\ []C26_Sum


\* two files of one batch that are not the same source: they differ in name
\* (X and X.json) or, the name being the same, in what they hold (two
\* directories)
DistinctSources(i, j) == i < j /\ files_to_process[i] # files_to_process[j]

\* C27: within one batch no two distinct sources resolve to the same
\* destination: a file converted or skipped-existing after another file of the
\* batch was converted never has that file's destination name.
C27_DestinationsDistinct ==
    \A i \in Handled : \A j \in Handled :
        (/\ DistinctSources(i, j)
         /\ outcome[i] = "success"
         /\ outcome[j] \in {"success", "skipped"})
        => DestinationOf(i) # DestinationOf(j)


\* C28: in the rendered conversation no two adjacent turn blocks have the
\* same role: every role header marks a change of speaker against the turn
\* block before it.
C28_HeadersAlternate ==
    \A n \in 1..(Len(B.emitted) - 1) :
        B.emitted[n].role # B.emitted[n + 1].role


\* the trimmed instruction as it is rendered: its line breaks followed by the
\* quote mark
IndentedInstruction ==
    Flatten([n \in 1..Len(TrimmedInstruction) |->
               IF TrimmedInstruction[n] = "\n" THEN <<"\n", ">", " ">>
               ELSE << TrimmedInstruction[n] >>])

\* the documents written under the destination name of the file
WrittenFor(i) == Named(W.docs, DestinationOf(i))

\* C29: whenever a document has a non-empty system instruction and its
\* conversion succeeds, the text of the instruction appears in the document
\* written; so a document accepted only for its system instruction never
\* yields a document without it.
C29_InstructionIsWritten ==
    (/\ outcome = << "success" >>
     /\ TrimmedInstruction # <<>>)
    => \A d \in WrittenFor(1) : Contains(IndentedInstruction, d.content)


\* at most one worker thread is running, and while one is running or its
\* re-enabling is still to be taken up, the start button is disabled
C30_OneWorker ==
    /\ Cardinality(Running(gui[1])) <= 1
    /\ (Running(gui[1]) # {} => gui[1].start_button = "disabled")
    /\ (gui[1].start_button = "normal"
           => \A k \in 1..Len(gui[1].after) :
                 gui[1].after[k].callback # "configure")

\* while a worker is running no thread is started and config is not written
C30_NoSecondBatch ==
    Running(gui[1]) # {}
    => /\ Len(gui'[1].threads) = Len(gui[1].threads)
       /\ config' = config

\* the button is disabled by the click that starts a worker, and enabled
\* only by the callback the worker's finally block scheduled
C30_ButtonSteps ==
    /\ Len(gui'[1].threads) > Len(gui[1].threads)
          => gui'[1].start_button = "disabled"
    /\ (gui[1].start_button = "disabled" /\ gui'[1].start_button = "normal")
          => /\ Running(gui[1]) = {}
             /\ gui[1].after # <<>>
             /\ Head(gui[1].after).callback = "configure"

\* a worker that has run to its end, whichever way, has scheduled the
\* re-enabling of the button: it is pending or has been taken up
C30_Scheduled ==
    (gui[1].threads # <<>> /\ Running(gui[1]) = {})
    => \/ gui[1].start_button = "normal"
       \/ \E k \in 1..Len(gui[1].after) : gui[1].after[k].callback = "configure"

\* C30: in the GUI at most one conversion worker thread is running at any
\* time: the start button is disabled from the click that starts a worker
\* until that worker's finally block schedules its re-enabling, so no second
\* batch and no second write to the shared configuration begins while a
\* batch is in progress; and the button is re-enabled after every worker,
\* also when the conversion raises.
C30_OneWorkerAtATime ==
    /\ [](pc = "gui" => C30_OneWorker /\ C30_Scheduled)
    /\ [][pc = "gui" => C30_NoSecondBatch /\ C30_ButtonSteps]_vars
    /\ ((pc = "gui" /\ gui[1].start_button = "disabled")
           ~> (gui[1].start_button = "normal"))

\* C30's case: a second worker was started after the first had run to its
\* end, its call of process_files raised, and the button is enabled again
C30_Witness ==
    /\ pc = "gui"
    /\ Len(gui[1].threads) = 2
    /\ Running(gui[1]) = {}
    /\ gui[1].start_button = "normal"
    /\ gui[1].log_textbox = << "An unexpected error occurred", "Done!" >>

====
